---- MODULE Spec2Model ----
(***************************************************************************)
(* Simulation core of the two builds of the game kept in the repository:   *)
(*   - the modular build (src/main.js 2630-3261 with the World, Player,    *)
(*     AIController and UI classes), whose state object is `state`;        *)
(*   - the single-file build (src/main.js 1-2628), whose state object is   *)
(*     `STATE`.                                                            *)
(* Units: health and sanity are kept in hundredths of a point (100.00 is   *)
(* 10000); api.fear in 1/10000; lengths of the modular build in tenths of  *)
(* a world unit; simulated time of the modular build in 1/120 s (one fixed *)
(* step of 1/60 s is 2).  Random draws and device input are inputs of the  *)
(* actions, drawn with \E from finite sets.                                *)
(***************************************************************************)
EXTENDS Integers, Sequences, FiniteSets, TLC

VARIABLES
  build,     \* which build runs: "modular" or "single"
  state,     \* modular: the state object (hp, sanity, inventory, items, playing, timeAlive)
  api,       \* modular: api.fear
  ai,        \* modular: AIController.enemies
  player,    \* modular: Player.position
  world,     \* modular: World.doors and the interactables that were consumed
  current,   \* modular: the interactable under the crosshair (checkInteract)
  acc,       \* modular: accumulator of the fixed-step loop
  STATE_,    \* single-file: the STATE object (STATE is a reserved word)
  INPUT,     \* single-file: the INPUT latches (interact, quick, fire)
  area,      \* single-file: the active area (solids, doors, items, interact, enemies, posters)
  timers,    \* single-file: the setTimeout callbacks still pending
  ui,        \* the death overlay: reason shown, and every reason ever reported
  hist,      \* key presses followed so far; simulated time since each enemy's last hit
  ev,        \* what the last handler did (observation only, never read by the model)
  gen,       \* world generation and start-up: the generator's or the start sequence's state
  probe      \* a collision query: the grid, the position asked about, the answers

vars == <<build, state, api, ai, player, world, current, acc,
          STATE_, INPUT, area, timers, ui, hist, ev, gen, probe>>

----------------------------------------------------------------------------
(* Bounds of the model *)

\* fixed steps of simulated time a session of the modular build is followed
\* for: with an enemy about, at the doors, and in the room
MaxSteps == 2
MaxStepsDoors == 3
MaxStepsInside == 1
\* key presses (E, Q) a session of the modular build is followed for; they
\* are followed among interactables only
MaxKeys == 3
\* ticks and input events a session of the single-file build is followed for
MaxTicks == 2
MaxInputs == 2
\* steps an enemy's cooldown is followed below zero
MaxOverdue == 1

----------------------------------------------------------------------------
(* Program constants *)

Full == 10000            \* clamp(..., 0, 100), in hundredths
step == 2                \* const step = 1/60, in 1/120 s
dtCap == 3               \* Math.min(0.033, ...), in 1/120 s (rounded down)
hitCooldownReset == 66   \* e.hitCooldown = 0.55, in 1/120 s
attackRadius == 13       \* d < 1.3, in tenths
lockedPenalty == 60      \* api.addSanity(-0.6)
quickEmptyPenalty == 400 \* state.sanity - 4

Min(a, b) == IF a < b THEN a ELSE b
Max(a, b) == IF a > b THEN a ELSE b

\* ceiling of n/d for n >= 0, d > 0: a positive real amount stays positive
\* at the resolution of the model
CeilDiv(n, d) == (n + d - 1) \div d

\* Op at the value of v, which is computed once however often Op uses it
at(v, Op(_)) == CHOOSE out \in { Op(x) : x \in {v} } : TRUE

----------------------------------------------------------------------------
(* The modular build: World, lengths in tenths of a world unit *)

\* let current = null: no interactable under the crosshair
null == 0

\* Player.position: the places the player is followed at
PlayerSpots == { <<300, 300>>, <<303, 300>> }
spawnSpot == <<300, 300>>

\* e.root.position: the places an enemy is followed at, ordered by their
\* distance to the player (1.27, 1.3, 10, 18, 23 and 30 units from <<300,300>>)
EnemySpots == << <<309, 309>>, <<313, 300>>, <<200, 300>>,
                 <<480, 300>>, <<530, 300>>, <<600, 300>> >>

\* World._queueDoorAtCell: keyId: locked ? `K${cx}_${cz}` : null
keyIdOf(cx, cz, locked) == IF locked THEN <<"K", cx, cz>> ELSE <<"null">>

queueDoorAtCell(cx, cz, locked) ==
  [cx |-> cx, cz |-> cz, locked |-> locked, opened |-> FALSE,
   keyId |-> keyIdOf(cx, cz, locked)]

----------------------------------------------------------------------------
(* The modular build: api *)

\* const fear = 1 - (state.sanity/100), in 1/10000
fearOf(sanity) == Full - sanity

\* clamp without its lower bound
clampNoFloor(x, a, b) == Min(b, x)

clamp(x, a, b) == Max(a, Min(b, x))

\* api.addSanity
addSanity(s, v) == [s EXCEPT !.sanity = clamp(s.sanity + v, 0, Full)]

\* api.damage
damage(s, hp, san) ==
  [s EXCEPT !.hp = clamp(s.hp - hp, 0, Full),
            !.sanity = clamp(s.sanity - san, 0, Full)]

\* api.giveKey, api.hasKey, api.consumeKey
giveKey(s, id) == [s EXCEPT !.inventory = @ \cup {id}]
hasKeyAlways(s, id) == TRUE
hasKey(s, id) == id \in s.inventory
keepKey(s, id) == s
consumeKey(s, id) == [s EXCEPT !.inventory = @ \ {id}]

\* api.pickItem
pickItem(s, kind) ==
  LET s1 == [s EXCEPT !.items = Append(@, kind)] IN
  CASE kind = "MEDKIT" -> [s1 EXCEPT !.hp = clamp(s1.hp + 2500, 0, Full)]
    [] kind = "CHARM"  -> [s1 EXCEPT !.sanity = clamp(s1.sanity + 1500, 0, Full)]
    [] kind = "ROTTEN" -> [s1 EXCEPT !.sanity = clamp(s1.sanity - 1800, 0, Full)]
    [] kind = "NEEDLE" -> [s1 EXCEPT !.hp = clamp(s1.hp - 1200, 0, Full),
                                     !.sanity = clamp(s1.sanity - 1000, 0, Full)]
    [] kind = "MIRROR" -> [s1 EXCEPT !.sanity = clamp(s1.sanity - 2200, 0, Full)]
    [] OTHER -> s1

\* UI.die
uiDie(u, reason) ==
  [u EXCEPT !.deathReason = reason, !.reports = Append(@, reason)]

----------------------------------------------------------------------------
(* The modular build: AIController.update, for one enemy *)

Dist2(p, q) == (p[1] - q[1]) * (p[1] - q[1]) + (p[2] - q[2]) * (p[2] - q[2])

\* d2 < chase2 with chaseRadius = 18 + api.fear*10: both sides times 10000
inChase(d2, fear) == d2 * 10000 < (18000 + fear) * (18000 + fear)

\* a chase that is kept once begun
aiStateSticky(e, d2, fear) ==
  IF inChase(d2, fear) THEN "chase" ELSE e.state

\* if (d2 < chase2) e.state = "chase"; else if (e.state !== "wander") e.state = "wander"
aiState(e, d2, fear) ==
  IF inChase(d2, fear) THEN "chase"
  ELSE IF e.state # "wander" THEN "wander" ELSE e.state

\* an attack whenever the cooldown has run out
aiAttacksAnywhere(st, d2, cd) == cd <= 0

\* an attack in range whatever the cooldown
aiAttacksAnytime(st, d2, cd) == st = "chase" /\ d2 < attackRadius * attackRadius

\* if (d < 1.3) if (e.hitCooldown <= 0), reached in the chase branch only
aiAttacks(st, d2, cd) ==
  st = "chase" /\ d2 < attackRadius * attackRadius /\ cd <= 0

\* api.damage(6 + api.fear*6, 2.5 + api.fear*5)
aiDamageHp(fear) == 600 + (6 * fear) \div 100
aiDamageSan(fear) == 250 + (5 * fear) \div 100

\* e.hitCooldown -= dt, followed down to MaxOverdue steps below zero
coolDown(cd, dt) == Max(cd - dt, 0 - MaxOverdue * step)

\* places the enemy can be after its move: a chasing enemy does not end
\* farther from the player than it was, a wandering one drifts either way
moveDests(e, st, p) ==
  { j \in 1..Len(EnemySpots) :
      /\ j - e.pos \in {-1, 0, 1}
      /\ st = "chase" => Dist2(EnemySpots[j], p) <= Dist2(EnemySpots[e.pos], p) }

\* api.fear > 0.75 && Math.random() < 0.0025: p + (Math.random()*2-1)*10 on
\* both axes; 0 is the draw that keeps the enemy where it is
teleDests(fear, p) ==
  {0} \cup
  { j \in 1..Len(EnemySpots) :
      /\ fear > 7500
      /\ EnemySpots[j][1] - p[1] >= -100 /\ EnemySpots[j][1] - p[1] < 100
      /\ EnemySpots[j][2] - p[2] >= -100 /\ EnemySpots[j][2] - p[2] < 100 }

enemyInputs(e, p, fear) ==
  LET st == aiState(e, Dist2(p, EnemySpots[e.pos]), fear) IN
  { [to |-> j, tele |-> t] : j \in moveDests(e, st, p), t \in teleDests(fear, p) }

\* the body of `for (const e of this.enemies)` for enemy i, with dt the step
updateEnemy(m, i, dt, in) ==
  LET e    == m.ai[i]
      fear == m.api.fear
      d2   == Dist2(m.player, EnemySpots[e.pos])
      st   == aiState(e, d2, fear)
      hit  == aiAttacks(st, d2, e.hitCooldown)
      cd   == coolDown(IF hit THEN hitCooldownReset ELSE e.hitCooldown, dt)
      gap  == m.hist.sinceHit[i]
      ago  == IF hit THEN dt
              ELSE IF gap < 0 THEN gap ELSE Min(gap + dt, hitCooldownReset)
  IN [m EXCEPT
        !.ai[i] = [pos |-> IF in.tele # 0 THEN in.tele ELSE in.to,
                   state |-> st, hitCooldown |-> cd],
        !.state = IF hit THEN damage(m.state, aiDamageHp(fear), aiDamageSan(fear))
                  ELSE m.state,
        !.hist.sinceHit[i] = ago,
        !.log = Append(m.log, [enemy |-> i, d2 |-> d2, fear |-> fear,
                               sanity |-> m.state.sanity,
                               was |-> e.state, now |-> st,
                               cd |-> e.hitCooldown, hit |-> hit, gap |-> gap,
                               after |-> cd, tele |-> in.tele # 0])]

RECURSIVE aiUpdateFrom(_, _, _, _)
aiUpdateFrom(m, i, dt, ins) ==
  IF i > Len(m.ai) THEN m
  ELSE aiUpdateFrom(updateEnemy(m, i, dt, ins[i]), i + 1, dt, ins)

\* AIController.update
aiUpdate(m, dt, ins) == aiUpdateFrom(m, 1, dt, ins)

----------------------------------------------------------------------------
(* The modular build: updateOne and the actions of the interactables *)

\* (0.35 + fear*0.9 + state.difficulty*0.2) * dt, in hundredths, dt in 1/120 s
\* a drain that stops once fear has risen above a half
drainWhileCalm(fear, difficulty, dt) ==
  IF 2 * fear > Full THEN 0
  ELSE CeilDiv((350000 + 90 * fear + 200000 * difficulty) * dt, 1200000)

drain(fear, difficulty, dt) ==
  CeilDiv((350000 + 90 * fear + 200000 * difficulty) * dt, 1200000)

\* (0.9 + fear*2.4) * dt
stareDrain(fear, dt) == CeilDiv((900000 + 240 * fear) * dt, 1200000)

\* the draws and the device input one fixed step reads
RECURSIVE enemyDraws(_, _, _, _)
enemyDraws(es, i, pt, fear) ==
  IF i > Len(es) THEN { <<>> }
  ELSE { <<x>> \o rest : x \in enemyInputs(es[i], pt, fear),
                         rest \in enemyDraws(es, i + 1, pt, fear) }

stepInputs(m) ==
  UNION { { [playerTo |-> pt, stare |-> st, enemies |-> es, target |-> tg] :
              st \in IF m.world.wallImages THEN BOOLEAN ELSE {FALSE},
              es \in enemyDraws(m.ai, 1, pt, fearOf(m.state.sanity)),
              tg \in 0..Len(m.world.interactables) } : pt \in m.world.places }

\* if (state.hp <= 0 || state.sanity <= 0)
deathCheck(m) ==
  IF m.state.hp <= 0 \/ m.state.sanity <= 0
  THEN [m EXCEPT !.state.playing = FALSE,
                 !.ui = uiDie(m.ui, IF m.state.hp <= 0
                                    THEN "PHYSICAL TRAUMA CRITICAL"
                                    ELSE "SYSTEM CORRUPTION 100%")]
  ELSE m

updateOne(m, dt, in) ==
  LET fear == fearOf(m.state.sanity) IN
  at([m EXCEPT !.state.timeAlive = @ + dt,
               !.api.fear = fear,
               !.state.sanity = clamp(@ - drain(fear, m.state.difficulty, dt), 0, Full),
               !.order = @ \o <<"tick", "decay">>], LAMBDA m0 :
  at([m0 EXCEPT !.player = in.playerTo, !.order = Append(@, "player")], LAMBDA m1 :
  at(IF m.world.wallImages /\ in.stare
     THEN [m1 EXCEPT !.state.sanity = clamp(@ - stareDrain(fear, dt), 0, Full),
                     !.order = Append(@, "affect")]
     ELSE m1, LAMBDA m2 :
  at(aiUpdate([m2 EXCEPT !.order = Append(@, "ai")], dt, in.enemies), LAMBDA m3 :
  at([m3 EXCEPT !.current = in.target, !.steps = @ + 1, !.hist.steps = @ + 1,
                !.order = Append(@, "scan")], LAMBDA m4 :
     deathCheck(m4))))))

\* the action closure of the interactable t; r is the draw of rand(1.0, 4.0)
doorAction(m, i) ==
  LET d == m.world.doors[i] IN
  IF d.opened THEN m
  ELSE IF d.locked /\ ~hasKey(m.state, d.keyId)
       THEN [m EXCEPT !.state = addSanity(m.state, 0 - lockedPenalty)]
       ELSE [m EXCEPT !.state = IF d.locked THEN consumeKey(m.state, d.keyId) ELSE m.state,
                      !.world.doors[i].locked = FALSE,
                      !.world.doors[i].opened = TRUE]

keyAction(m, t) ==
  [m EXCEPT !.state = giveKey(m.state, m.world.interactables[t].keyId),
            !.world.removed = @ \cup {t}]

tvAction(m, r) == [m EXCEPT !.state = addSanity(m.state, 0 - r)]

\* api.addSanity(-(2.0 + data.creep*6.5)), creep in hundredths
noteAction(m, t) ==
  [m EXCEPT !.state = addSanity(m.state,
                        0 - (200 + (m.world.interactables[t].creep * 65) \div 10))]

itemAction(m, t) ==
  [m EXCEPT !.state = pickItem(m.state, m.world.interactables[t].item),
            !.world.removed = @ \cup {t}]

\* what an invocation can change, for the record of the invocation
snap(m) ==
  [hp |-> m.state.hp, sanity |-> m.state.sanity, inventory |-> m.state.inventory,
   items |-> m.state.items, doors |-> m.world.doors]

\* an interactable is consumed once its mesh was removed (key, item) or
\* its door opened
consumed(m, t) ==
  LET it == m.world.interactables[t] IN
  \/ t \in m.world.removed
  \/ it.kind = "door" /\ m.world.doors[it.door].opened

action(m, t, r) ==
  LET it == m.world.interactables[t]
      m1 == CASE it.kind = "door" -> doorAction(m, it.door)
              [] it.kind = "key"  -> keyAction(m, t)
              [] it.kind = "tv"   -> tvAction(m, r)
              [] it.kind = "note" -> noteAction(m, t)
              [] it.kind = "item" -> itemAction(m, t)
  IN [m1 EXCEPT !.invoked = Append(@, [target |-> it, consumed |-> consumed(m, t),
                                       pre |-> snap(m), post |-> snap(m1)])]

----------------------------------------------------------------------------
(* The modular build: the sessions followed, and the handlers *)

\* health and sanity a session is picked up at: full, and close to death
SnapHp == {Full, 1100}
SnapSanity == {Full, 500, 3}

\* draws of rand(1.0, 4.0), in hundredths
TvDraws == {100, 399}

doorTarget(i) == [kind |-> "door", door |-> i]
keyTarget(id) == [kind |-> "key", keyId |-> id]
itemTarget(k) == [kind |-> "item", item |-> k]

\* an open stretch with an enemy about and nothing to interact with
openWorld ==
  [doors |-> <<>>, interactables |-> <<>>, removed |-> {}, wallImages |-> FALSE,
   places |-> PlayerSpots]

\* two locked doors queued at the same cell, an unlocked door, the key of
\* the locked doors
doorWorld ==
  [doors |-> << queueDoorAtCell(20, 12, TRUE), queueDoorAtCell(20, 12, TRUE),
                queueDoorAtCell(31, 40, FALSE) >>,
   interactables |-> << doorTarget(1), doorTarget(2), doorTarget(3),
                        keyTarget(keyIdOf(20, 12, TRUE)) >>,
   removed |-> {}, wallImages |-> FALSE, places |-> {spawnSpot}]

\* a room with a TV, a note, two items and a wall image
roomWorld ==
  [doors |-> <<>>,
   interactables |-> << [kind |-> "tv"], [kind |-> "note", creep |-> 70],
                        itemTarget("MEDKIT"), itemTarget("MIRROR") >>,
   removed |-> {}, wallImages |-> TRUE, places |-> {spawnSpot}]

\* the enemies followed in a world: the one near the player in the open
\* stretch, picked up fresh (hitCooldown 0, never hit) or late in a cooldown
enemiesOf(w) ==
  IF w = openWorld
  THEN { << [pos |-> j, state |-> IF cd = 0 THEN "wander" ELSE "chase",
               hitCooldown |-> cd] >> :
            j \in 1..Len(EnemySpots), cd \in {0, step} }
  ELSE { <<>> }

sinceHitOf(es) ==
  [i \in 1..Len(es) |->
     IF es[i].hitCooldown > 0 THEN hitCooldownReset - es[i].hitCooldown ELSE -1]

\* the sessions followed: in the open stretch from any of the snapshots, at
\* the doors and in the room from full health
sessions ==
  { [world |-> openWorld, hp |-> h, sanity |-> sa] : h \in SnapHp, sa \in SnapSanity }
  \cup { [world |-> doorWorld, hp |-> Full, sanity |-> Full] }
  \cup { [world |-> roomWorld, hp |-> Full, sanity |-> sa] : sa \in {Full, 40} }

InitModular ==
  /\ build = "modular"
  /\ \E se \in sessions :
       /\ world = se.world
       /\ state = [hp |-> se.hp, sanity |-> se.sanity, inventory |-> {}, items |-> <<>>,
                   playing |-> TRUE, timeAlive |-> 0, difficulty |-> 0]
       /\ api = [fear |-> fearOf(se.sanity)]
       /\ ai \in enemiesOf(se.world)
       /\ current = null
  /\ player = spawnSpot
  /\ acc = 0
  /\ ui = [deathReason |-> "", reports |-> <<>>, note |-> FALSE]
  /\ hist = [presses |-> 0, steps |-> 0, asked |-> 0, sinceHit |-> sinceHitOf(ai)]
  /\ ev = [op |-> "init"]
  /\ STATE_ = "unused" /\ INPUT = "unused" /\ area = "unused" /\ timers = "unused"
  /\ gen = "unused" /\ probe = "unused"

\* the state a handler of the modular build starts from
Now ==
  [state |-> state, api |-> api, ai |-> ai, player |-> player, world |-> world,
   current |-> current, ui |-> ui, hist |-> hist,
   log |-> <<>>, steps |-> 0, invoked |-> <<>>, order |-> <<>>]

Commit(m, op) ==
  /\ state' = m.state /\ api' = m.api /\ ai' = m.ai /\ player' = m.player
  /\ world' = m.world /\ current' = m.current /\ ui' = m.ui /\ hist' = m.hist
  /\ ev' = [op |-> op, ai |-> m.log, steps |-> m.steps, invoked |-> m.invoked,
            wrote |-> {}, target |-> current, live |-> state.playing,
            latch |-> FALSE, hp0 |-> state.hp, asked |-> 0, order |-> m.order]

\* frame(now): acc += dt; while (acc >= step) { updateOne(step, ...); acc -= step; }
Frame ==
  /\ build = "modular"
  /\ state.playing
  /\ hist.steps < (IF Len(ai) > 0 THEN MaxSteps
                   ELSE IF Len(world.doors) > 0 THEN MaxStepsDoors ELSE MaxStepsInside)
  /\ \E dt \in 1..dtCap :
       LET n == (acc + dt) \div step IN
       /\ acc' = (acc + dt) % step
       /\ \E in1 \in IF n >= 1 THEN stepInputs(Now) ELSE {0} :
            LET m1 == IF n >= 1 THEN updateOne(Now, step, in1) ELSE Now IN
            \E in2 \in IF n >= 2 THEN stepInputs(m1) ELSE {0} :
              LET m2 == IF n >= 2 THEN updateOne(m1, step, in2) ELSE m1 IN
              Commit(m2, "frame")
  /\ UNCHANGED <<gen, probe, build, STATE_, INPUT, area, timers>>

\* keydown KeyE: if (!current || !state.playing) return; current.action(api);
KeyE ==
  /\ build = "modular"
  /\ Len(world.interactables) > 0
  /\ hist.presses < MaxKeys
  /\ \E r \in TvDraws :
       LET m0 == [Now EXCEPT !.hist.presses = @ + 1]
           m1 == IF current = null \/ ~state.playing THEN m0
                 ELSE action(m0, current, r)
       IN Commit(m1, "keyE")
  /\ UNCHANGED <<gen, probe, build, acc, STATE_, INPUT, area, timers>>

\* keydown KeyQ; nothing is the draw Math.random() < 0.33
KeyQ ==
  /\ build = "modular"
  /\ Len(world.interactables) > 0
  /\ hist.presses < MaxKeys
  /\ \E nothing \in BOOLEAN :
       LET m0 == [Now EXCEPT !.hist.presses = @ + 1]
           item == Head(state.items)
           used == [m0 EXCEPT !.state.items = Tail(@)]
           m1 == IF ~state.playing THEN m0
                 ELSE IF Len(state.items) = 0
                      THEN IF nothing THEN m0
                           ELSE [m0 EXCEPT !.state.sanity =
                                             clamp(@ - quickEmptyPenalty, 0, Full)]
                 ELSE IF item = "CHARM"
                      THEN [used EXCEPT !.state.sanity = clamp(@ + 600, 0, Full)]
                 ELSE IF item = "MIRROR"
                      THEN [used EXCEPT !.state.sanity = clamp(@ - 800, 0, Full)]
                 ELSE used
       IN Commit(m1, "keyQ")
  /\ UNCHANGED <<gen, probe, build, acc, STATE_, INPUT, area, timers>>

----------------------------------------------------------------------------
(* The single-file build: health and sanity in hundredths, STATE.glitch in  *)
(* thousandths, distances in hundredths of a world unit, time in            *)
(* hundredths of a second                                                   *)

enemyViewDist == 2400     \* CFG.enemyViewDist: 24
enemyAttackDist == 150    \* CFG.enemyAttackDist: 1.5
keyCount == 4             \* CFG.pocket.keyCount
dtMax == 5                \* Math.min(0.05, clock.getDelta())
attackCDMin == 55         \* e.attackCD = 0.55 + Math.random() * 0.35
gatePenalty == 400        \* damageSanity(4, "The door laughs.")
pocketDoorPenalty == 200  \* damageSanity(2, "You forgot the key.")

\* STATE.currentInteract = null
NoInteract == [kind |-> "null"]

\* function die(reason)
die(M, reason) ==
  [M EXCEPT !.STATE_.playing = FALSE, !.STATE_.paused = TRUE,
            !.ui = uiDie(M.ui, reason)]

\* function damageHP(amount)
damageHP(M, amount) ==
  IF amount <= 0 THEN M
  ELSE LET M1 == [M EXCEPT !.STATE_.hp = clamp(@ - amount, 0, Full)] IN
       IF M1.STATE_.hp <= 0 THEN die(M1, "PHYSICAL TRAUMA CRITICAL") ELSE M1

\* function damageSanity(amount, whisperText, silent)
damageSanity(M, amount) ==
  IF amount <= 0 THEN M
  ELSE LET M1 == [M EXCEPT !.STATE_.sanity = clamp(@ - amount, 0, Full)] IN
       IF M1.STATE_.sanity <= 0 THEN die(M1, "SYSTEM CORRUPTION 100%") ELSE M1

\* function computeGlitch(), with glitchJitterStart 55 and glitchHardStart 28
computeGlitch(sanity) ==
  LET g1 == IF sanity < 5500 THEN ((5500 - sanity) * 1000) \div 5500 ELSE 0
      g2 == IF sanity < 2800 THEN 550 + ((2800 - sanity) * 450) \div 2800 ELSE g1
  IN clamp(g2, 0, 1000)

\* function idxOf(size, x, z), function inBounds(area, x, z)
idxOf(size, x, z) == x + z * size
inBounds(a, x, z) == x >= 0 /\ z >= 0 /\ x < a.size /\ z < a.size

addCellSolidTransposed(M, x, z, solid) ==
  IF ~inBounds(M.area, x, z) THEN M
  ELSE [M EXCEPT !.area.solids[idxOf(M.area.size, z, x)] = solid,
                 !.wrote = @ \cup {idxOf(M.area.size, z, x)}]

\* function addCellSolid(area, x, z, solid, meta)
addCellSolid(M, x, z, solid) ==
  IF ~inBounds(M.area, x, z) THEN M
  ELSE [M EXCEPT !.area.solids[idxOf(M.area.size, x, z)] = solid,
                 !.wrote = @ \cup {idxOf(M.area.size, x, z)}]

\* function collidesAt(area, x, z, radius) for a point at the centre of the
\* cell c and a radius below half a cell: r = Math.ceil(radius / area.cell) + 1
\* is 2, a cell of the scan out of bounds answers true, and the only solid
\* cell closer than the radius is the cell itself
collidesAt(a, c) ==
  \/ \E dx \in -2..2, dz \in -2..2 : ~inBounds(a, c[1] + dx, c[2] + dz)
  \/ a.solids[idxOf(a.size, c[1], c[2])] = 1

\* function resolveMovement(area, desired, radius): X, then Z
\* a move that is made without asking collidesAt
resolveMovementUnchecked(a, p, desired) == desired

resolveMovement(a, p, desired) ==
  LET px == IF ~collidesAt(a, <<desired[1], p[2]>>) THEN desired[1] ELSE p[1]
      pz == IF ~collidesAt(a, <<px, desired[2]>>) THEN desired[2] ELSE p[2]
  IN <<px, pz>>

\* e.pos.distanceTo(player.pos): the distances an enemy is followed at
EnemyDists == << 120, 150, 1000, 2400, 3000 >>

\* CFG.enemyDamageHP * (0.6 + STATE.glitch * 0.8), CFG.enemyDamageSAN * (0.6 + STATE.glitch * 0.9)
enemyDamageHP(glitch) == (1400 * (6000 + 8 * glitch)) \div 10000
enemyDamageSAN(glitch) == (900 * (6000 + 9 * glitch)) \div 10000

\* d < CFG.enemyViewDist
enemyChases(d) == d < enemyViewDist

\* e.attackCD -= dt; if (d < CFG.enemyAttackDist && e.attackCD <= 0)
enemyAttacks(d, cd) == enemyChases(d) /\ d < enemyAttackDist /\ cd <= 0

\* the body of `for (const e of area.enemies)` for enemy i
updateEnemy1(M, i, dt, in) ==
  LET e     == M.area.enemies[i]
      d     == EnemyDists[e.at]
      chase == enemyChases(d)
      cd    == IF chase THEN Max(e.attackCD - dt, 0 - MaxOverdue * dtMax) ELSE e.attackCD
      hit   == enemyAttacks(d, cd)
      since == M.hist.sinceHit[i]
      gap   == IF since < 0 THEN since ELSE Min(since + dt, attackCDMin)
      M1    == [M EXCEPT
                  !.area.enemies[i] = [at |-> in.to,
                                       attackCD |-> IF hit THEN in.cd ELSE cd],
                  !.hist.sinceHit[i] = IF hit THEN 0 ELSE gap,
                  !.log = Append(M.log, [enemy |-> i, d |-> d,
                                         now |-> IF chase THEN "chase" ELSE "idle",
                                         cd |-> cd, hit |-> hit, gap |-> gap,
                                         after |-> IF hit THEN in.cd ELSE cd,
                                         dead |-> ~M.STATE_.playing])]
  IN IF hit
     THEN damageSanity(damageHP(M1, enemyDamageHP(M.STATE_.glitch)),
                       enemyDamageSAN(M.STATE_.glitch))
     ELSE M1

RECURSIVE updateEnemiesFrom(_, _, _, _)
updateEnemiesFrom(M, i, dt, ins) ==
  IF i > Len(M.area.enemies) THEN M
  ELSE updateEnemiesFrom(updateEnemy1(M, i, dt, ins[i]), i + 1, dt, ins)

\* function updateEnemies(area, dt)
updateEnemies(M, dt, ins) ==
  updateEnemiesFrom([M EXCEPT !.order = Append(@, "ai")], 1, dt, ins)

\* function updatePlayer(area, dt): the sanity decay, then the movement
updatePlayer(M, dt, desired) ==
  LET decay == CeilDiv(85 * dt * (IF M.STATE_.inPocket THEN 11 ELSE 10), 1000)
      M1 == damageSanity([M EXCEPT !.order = Append(@, "decay")], decay)
  IN [M1 EXCEPT !.player = resolveMovement(M.area, M.player, desired),
                !.order = Append(@, "player")]

\* function updateExitUnlock(area)
updateExitUnlock(M) ==
  IF ~M.STATE_.inPocket \/ ~M.area.exitCell THEN M
  ELSE [M EXCEPT !.area.doors =
          [k \in 1..Len(M.area.doors) |->
             IF M.area.doors[k].kind = "exitDoor"
             THEN [M.area.doors[k] EXCEPT !.locked = ~(M.STATE_.keys >= keyCount)]
             ELSE M.area.doors[k]]]

\* function updateLookTriggers(area, dt): look says that the poster has been
\* looked at for more than 0.35 s; hit is the draw of CFG.sanityPosterHit
updateLookTriggers(M, look, hit) ==
  IF look /\ Len(M.area.posters) > 0 /\ ~M.area.posters[1].triggered
  THEN damageSanity([M EXCEPT !.area.posters[1].triggered = TRUE,
                              !.order = Append(@, "affect")], hit)
  ELSE M

----------------------------------------------------------------------------
(* The single-file build: the areas, the interactions *)

\* initAreaGrids: the border walls; walls are the cells the generator filled
genSolids(size, walls) ==
  [id \in 0..(size * size - 1) |->
     IF \/ id % size \in {0, size - 1} \/ id \div size \in {0, size - 1}
        \/ id \in walls
     THEN 1 ELSE 0]

spawnDoor(cx, cz, kind, locked) ==
  [cx |-> cx, cz |-> cz, kind |-> kind, locked |-> locked, open |-> FALSE]

spawnPickup(type) == [type |-> type, taken |-> FALSE]

doorOf(i) == [kind |-> "door", door |-> i]
pickupOf(i) == [kind |-> "item", item |-> i]

\* a generated pocket: a locked and an unlocked pocket door, the exit, a key
pocketArea ==
  [name |-> "pocket", size |-> 6, solids |-> genSolids(6, {}),
   doors |-> << spawnDoor(3, 2, "pocketDoor", TRUE),
                spawnDoor(2, 3, "pocketDoor", FALSE),
                spawnDoor(3, 3, "exitDoor", TRUE) >>,
   items |-> << spawnPickup("key") >>,
   interact |-> << doorOf(1), doorOf(2), doorOf(3), pickupOf(1) >>,
   enemies |-> <<>>, posters |-> <<>>, exitCell |-> TRUE]

\* the cell enterPocket moves the player to
pocketSpawn == <<2, 2>>

\* randRange(a, b) for the draw r: the low end, or just below the high end
randRange(a, b, r) == IF r = 0 THEN a ELSE b - 1

\* what an invocation can change, for the record of the invocation
snap1(M) ==
  [hp |-> M.STATE_.hp, sanity |-> M.STATE_.sanity,
   inventory |-> [keys |-> M.STATE_.keys, hasKey |-> M.STATE_.hasKey],
   items |-> [ammo |-> M.STATE_.ammo, timers |-> M.timers],
   doors |-> M.area.doors, inPocket |-> M.STATE_.inPocket]

\* function enterPocket()
enterPocket(M) ==
  [M EXCEPT !.STATE_.inPocket = TRUE, !.STATE_.keys = 0,
            !.area = pocketArea, !.player = pocketSpawn,
            !.hist.sinceHit = <<>>]

\* function onDoorInteract(area, door)
onDoorInteract(M, i) ==
  LET door == M.area.doors[i] IN
  IF door.kind = "pocketGate"
  THEN IF ~M.STATE_.hasKey THEN damageSanity(M, gatePenalty) ELSE enterPocket(M)
  ELSE IF door.kind = "exitDoor"
  THEN IF door.locked THEN M ELSE die(M, "YOU ESCAPED (...FOR NOW)")
  ELSE IF door.locked /\ ~(M.STATE_.keys > 0)
  THEN damageSanity(M, pocketDoorPenalty)
  ELSE LET M1 == IF door.locked
                 THEN [M EXCEPT !.STATE_.keys = @ - 1, !.area.doors[i].locked = FALSE]
                 ELSE M
       IN addCellSolid([M1 EXCEPT !.area.doors[i].open = TRUE], door.cx, door.cz, 0)

\* function takeItem(area, item); r draws the sanity hit of the cursed object
takeItem(M, i, r) ==
  LET item == M.area.items[i]
      M1 == [M EXCEPT !.area.items[i].taken = TRUE] IN
  IF item.taken THEN M
  ELSE CASE item.type = "key" ->
              IF M.STATE_.inPocket THEN [M1 EXCEPT !.STATE_.keys = @ + 1]
              ELSE [M1 EXCEPT !.STATE_.hasKey = TRUE]
         [] item.type = "charge" ->
              [M1 EXCEPT !.STATE_.ammo = clamp(@ + 25, 0, 100)]
         [] item.type = "med" ->
              [M1 EXCEPT !.STATE_.hp = clamp(@ + 2200, 0, Full)]
         [] item.type = "cursed" ->
              [M1 EXCEPT !.STATE_.ammo = clamp(@ + 22, 0, 100),
                         !.STATE_.hp = clamp(@ + 1000, 0, Full),
                         !.timers = Append(@, randRange(1400, 2400, r))]

\* function pauseGame(on, silent)
pauseGame(M, on) == IF ~M.STATE_.playing THEN M ELSE [M EXCEPT !.STATE_.paused = on]

\* the action of a note: showNote, then the hit or the comfort
noteAction1(M, creepy, r) ==
  LET M1 == pauseGame([M EXCEPT !.ui.note = TRUE], TRUE) IN
  IF creepy THEN damageSanity(M1, randRange(600, 1800, r))
  ELSE [M1 EXCEPT !.STATE_.sanity = clamp(@ + 300, 0, Full)]

\* the action of the TV
tvAction1(M, r) == damageSanity(M, randRange(200, 600, r))

consumed1(M, it) ==
  \/ it.kind = "item" /\ M.area.items[it.item].taken
  \/ it.kind = "door" /\ M.area.doors[it.door].open

\* STATE.currentInteract.action()
action1(M, it, r) ==
  LET M1 == CASE it.kind = "door" -> onDoorInteract(M, it.door)
              [] it.kind = "item" -> takeItem(M, it.item, r)
              [] it.kind = "note" -> noteAction1(M, it.creepy, r)
              [] it.kind = "tv"   -> tvAction1(M, r)
  IN [M1 EXCEPT !.invoked = Append(@, [target |-> it, consumed |-> consumed1(M, it),
                                       pre |-> snap1(M), post |-> snap1(M1)])]

\* function doInteract(area)
doInteract(M, r) ==
  IF ~M.INPUT.interact THEN M
  ELSE LET M1 == [M EXCEPT !.INPUT.interact = FALSE, !.order = Append(@, "dispatch")] IN
       IF M.STATE_.currentInteract = NoInteract THEN M1
       ELSE action1(M1, M.STATE_.currentInteract, r)

\* function quickUse()
quickUse(M) ==
  IF ~M.INPUT.quick THEN M
  ELSE LET M1 == [M EXCEPT !.INPUT.quick = FALSE, !.STATE_.quickItem = ""]
           t == M.STATE_.quickItem IN
       IF t = "med" THEN [M1 EXCEPT !.STATE_.hp = clamp(@ + 3200, 0, Full)]
       ELSE IF t = "cursed"
            THEN [M1 EXCEPT !.STATE_.ammo = clamp(@ + 35, 0, 100),
                            !.timers = Append(@, 1800)]
       ELSE M1

----------------------------------------------------------------------------
(* The single-file build: tick and the event handlers *)

RemoveAt(q, i) == [k \in 1..(Len(q) - 1) |-> IF k < i THEN q[k] ELSE q[k + 1]]

\* function fireWeapon(area, dt): shot is the enemy under the ray within 18
\* units (0: none), banish the draw that deletes it
fireWeapon(M, shot, banish) ==
  IF ~M.INPUT.fire \/ M.STATE_.ammo <= 2 THEN M
  ELSE LET M1 == [M EXCEPT !.STATE_.ammo = clamp(@ - 18, 0, 100), !.INPUT.fire = FALSE]
           es == M.area.enemies IN
       IF shot = 0 \/ shot > Len(es) THEN M1
       ELSE LET M2 == [M1 EXCEPT !.STATE_.sanity = clamp(@ + 80, 0, Full),
                                 !.area.enemies[shot].at = Min(@ + 1, Len(EnemyDists))]
            IN IF banish
               THEN [M2 EXCEPT !.area.enemies = RemoveAt(es, shot),
                               !.hist.sinceHit = RemoveAt(M.hist.sinceHit, shot)]
               ELSE M2

RECURSIVE enemyDraws1(_, _)
enemyDraws1(es, i) ==
  IF i > Len(es) THEN { <<>> }
  ELSE { << [to |-> j, cd |-> c] >> \o rest :
           j \in { k \in 1..Len(EnemyDists) : k - es[i].at \in {-1, 0, 1} },
           c \in IF EnemyDists[es[i].at] < enemyAttackDist
                 THEN {attackCDMin, attackCDMin + 34} ELSE {attackCDMin},
           rest \in enemyDraws1(es, i + 1) }

\* the draws and the device input one tick reads
tickInputs(M) ==
  LET p == M.player
      poster == Len(M.area.posters) > 0 /\ ~M.area.posters[1].triggered
      shooting == M.INPUT.fire /\ Len(M.area.enemies) > 0
  IN { [dt |-> dt, desired |-> de, enemies |-> es, look |-> lk, r |-> r,
        target |-> tg, shot |-> sh, banish |-> ba] :
         dt \in {2, dtMax},
         de \in { <<p[1] + 1, p[2]>>, <<p[1] - 1, p[2]>> },
         es \in enemyDraws1(M.area.enemies, 1),
         lk \in IF poster THEN BOOLEAN ELSE {FALSE},
         r \in IF poster \/ M.INPUT.interact THEN {0, 1} ELSE {0},
         tg \in {NoInteract} \cup { M.area.interact[k] : k \in 1..Len(M.area.interact) },
         sh \in IF shooting THEN 0..Len(M.area.enemies) ELSE {0},
         ba \in IF shooting THEN BOOLEAN ELSE {FALSE} }

\* the body of tick() past its guards
tickBody(M, in) ==
  at([M EXCEPT !.STATE_.glitch = computeGlitch(M.STATE_.sanity),
               !.hist.steps = @ + 1, !.hist.asked = 0,
               !.order = Append(@, "tick")], LAMBDA M0 :
  at(updatePlayer(M0, in.dt, in.desired), LAMBDA M1 :
  at(updateEnemies(M1, in.dt, in.enemies), LAMBDA M2 :
  at(updateExitUnlock(M2), LAMBDA M3 :
  at(updateLookTriggers(M3, in.look, randRange(200, 1000, in.r)), LAMBDA M4 :
  at([M4 EXCEPT !.STATE_.currentInteract = in.target,
                !.order = Append(@, "scan")], LAMBDA M5 :
  at(doInteract(M5, in.r), LAMBDA M6 :
  at(quickUse(M6), LAMBDA M7 :
     IF M7.area.name = M.area.name THEN fireWeapon(M7, in.shot, in.banish)
     ELSE fireWeapon(M7, 0, FALSE)))))))))

\* the state a handler of the single-file build starts from
Now1 ==
  [STATE_ |-> STATE_, INPUT |-> INPUT, area |-> area, player |-> player,
   timers |-> timers, ui |-> ui, hist |-> hist,
   log |-> <<>>, invoked |-> <<>>, wrote |-> {}, order |-> <<>>]

\* a tick leaves the record of what it did; an event leaves none
Commit1(M, op, n) ==
  /\ STATE_' = M.STATE_ /\ INPUT' = M.INPUT /\ area' = M.area /\ player' = M.player
  /\ timers' = M.timers /\ ui' = M.ui /\ hist' = M.hist
  /\ ev' = IF n > 0
           THEN [op |-> op, ai |-> M.log, steps |-> n, invoked |-> M.invoked,
                 wrote |-> M.wrote, target |-> M.STATE_.currentInteract,
                 live |-> STATE_.playing, latch |-> INPUT.interact,
                 hp0 |-> STATE_.hp, asked |-> hist.asked, order |-> M.order]
           ELSE [op |-> "event", ai |-> <<>>, steps |-> 0, invoked |-> <<>>,
                 wrote |-> {}, target |-> NoInteract, live |-> STATE_.playing,
                 latch |-> FALSE, hp0 |-> STATE_.hp, asked |-> 0, order |-> <<>>]
  /\ UNCHANGED <<gen, probe, build, state, api, ai, world, current, acc>>

\* function tick()
Tick ==
  /\ build = "single"
  /\ STATE_.playing /\ ~STATE_.paused
  /\ hist.steps < MaxTicks
  /\ \E in \in tickInputs(Now1) : Commit1(tickBody(Now1, in), "tick", 1)

Event(M) == [M EXCEPT !.hist.presses = @ + 1]

\* the device events followed in each area
followed ==
  CASE area.name = "fight"  -> {"mousedown", "Escape"}
    [] area.name = "street" -> {"KeyE", "keyup KeyE"}
    [] area.name = "yard"   -> {"KeyE", "KeyQ", "keyup KeyQ", "interval", "Escape"}
    [] area.name = "pocket" -> {"KeyE", "Escape"}

\* the keydown listener, for Escape, KeyE and KeyQ
KeyDown ==
  /\ build = "single"
  /\ hist.presses < MaxInputs
  /\ \E code \in {"Escape", "KeyE", "KeyQ"} \cap followed :
       LET M == Event(Now1) IN
       Commit1(IF code = "Escape"
               THEN (IF STATE_.playing THEN pauseGame(M, ~STATE_.paused) ELSE M)
               ELSE IF ~STATE_.playing \/ STATE_.paused THEN M
               ELSE IF code = "KeyE"
                    THEN [M EXCEPT !.INPUT.interact = TRUE, !.hist.asked = @ + 1]
               ELSE [M EXCEPT !.INPUT.quick = TRUE],
               "keydown", 0)

\* the keyup listener, for KeyE and KeyQ
KeyUp ==
  /\ build = "single"
  /\ hist.presses < MaxInputs
  /\ \E code \in {"keyup KeyE", "keyup KeyQ"} \cap followed :
       LET M == Event(Now1) IN
       Commit1(IF code = "keyup KeyE" THEN [M EXCEPT !.INPUT.interact = FALSE]
               ELSE [M EXCEPT !.INPUT.quick = FALSE],
               "keyup", 0)

\* the mousedown listener, button 0, with the pointer locked
MouseDown ==
  /\ build = "single"
  /\ hist.presses < MaxInputs
  /\ "mousedown" \in followed
  /\ LET M == Event(Now1) IN
     Commit1(IF ~STATE_.playing \/ STATE_.paused THEN M
             ELSE [M EXCEPT !.INPUT.fire = TRUE], "mousedown", 0)

\* UI.noteClose click: hideNote()
NoteClose ==
  /\ build = "single"
  /\ ui.note
  /\ hist.presses < MaxInputs
  /\ Commit1(pauseGame([Event(Now1) EXCEPT !.ui.note = FALSE], FALSE), "noteclose", 0)

\* a setTimeout callback of takeItem or quickUse comes due
TimerFires ==
  /\ build = "single"
  /\ \E k \in 1..Len(timers) :
       Commit1(damageSanity([Now1 EXCEPT !.timers = RemoveAt(timers, k)], timers[k]),
               "timer", 0)

\* the 11 s interval that injects a quick item; item is the draw
QuickItemInterval ==
  /\ build = "single"
  /\ hist.presses < MaxInputs
  /\ "interval" \in followed
  /\ \E item \in {"", "med", "cursed"} :
       LET M == Event(Now1) IN
       Commit1(IF ~STATE_.playing \/ STATE_.paused \/ STATE_.quickItem # "" THEN M
               ELSE [M EXCEPT !.STATE_.quickItem = item], "interval", 0)

----------------------------------------------------------------------------
(* The single-file build: the sessions followed *)

\* an open stretch of the surface with an enemy about
fightArea ==
  [name |-> "fight", size |-> 6, solids |-> genSolids(6, {idxOf(6, 3, 2)}),
   doors |-> <<>>, items |-> <<>>, interact |-> <<>>,
   enemies |-> <<>>, posters |-> <<>>, exitCell |-> FALSE]

\* the surface at the gate of the pocket (spawned before the key was held),
\* with the key and a creepy note
streetArea ==
  [name |-> "street", size |-> 6, solids |-> genSolids(6, {}),
   doors |-> << spawnDoor(2, 3, "pocketGate", TRUE) >>,
   items |-> << spawnPickup("key") >>,
   interact |-> << doorOf(1), pickupOf(1), [kind |-> "note", creepy |-> TRUE] >>,
   enemies |-> <<>>, posters |-> <<>>, exitCell |-> FALSE]

\* the surface at a TV, with a medkit, a cursed object and a poster
yardArea ==
  [name |-> "yard", size |-> 6, solids |-> genSolids(6, {idxOf(6, 3, 2)}),
   doors |-> <<>>,
   items |-> << spawnPickup("med"), spawnPickup("cursed") >>,
   interact |-> << pickupOf(1), pickupOf(2), [kind |-> "tv"] >>,
   enemies |-> <<>>, posters |-> << [triggered |-> FALSE] >>, exitCell |-> FALSE]

\* the sessions followed: area, health, sanity, pocket keys held
sessions1 ==
  { [area |-> fightArea, hp |-> Full, sanity |-> Full, keys |-> 0],
    [area |-> fightArea, hp |-> 1100, sanity |-> 500, keys |-> 0],
    [area |-> fightArea, hp |-> Full, sanity |-> 6, keys |-> 0] }
  \cup { [area |-> a, hp |-> Full, sanity |-> sa, keys |-> 0] :
           a \in {streetArea, yardArea}, sa \in {Full, 150} }
  \cup { [area |-> pocketArea, hp |-> Full, sanity |-> sa, keys |-> k] :
           sa \in {Full, 150}, k \in {0, keyCount - 1} }

\* the enemy of the open stretch, picked up fresh (attackCD 0, never hit) or
\* late in a cooldown
enemiesOf1(a) ==
  IF a.name = "fight"
  THEN { << [at |-> j, attackCD |-> 0] >> : j \in 1..Len(EnemyDists) }
       \cup { << [at |-> 1, attackCD |-> dtMax] >> }
  ELSE { <<>> }

sinceHitOf1(es) ==
  [i \in 1..Len(es) |-> IF es[i].attackCD > 0 THEN attackCDMin - es[i].attackCD ELSE -1]

InitSingle ==
  /\ build = "single"
  /\ \E se \in sessions1 : \E es \in enemiesOf1(se.area) :
       /\ area = [se.area EXCEPT !.enemies = es]
       /\ STATE_ = [playing |-> TRUE, paused |-> FALSE, hp |-> se.hp,
                    sanity |-> se.sanity, ammo |-> 55, quickItem |-> "",
                    hasKey |-> FALSE, keys |-> se.keys,
                    inPocket |-> se.area.name = "pocket",
                    glitch |-> computeGlitch(se.sanity),
                    currentInteract |-> NoInteract]
       /\ hist = [presses |-> 0, steps |-> 0, asked |-> 0,
                  sinceHit |-> sinceHitOf1(es)]
  /\ INPUT = [interact |-> FALSE, quick |-> FALSE, fire |-> FALSE]
  /\ player = pocketSpawn
  /\ timers = <<>>
  /\ ui = [deathReason |-> "", reports |-> <<>>, note |-> FALSE]
  /\ ev = [op |-> "init"]
  /\ state = "unused" /\ api = "unused" /\ ai = "unused" /\ world = "unused"
  /\ current = "unused" /\ acc = "unused"
  /\ gen = "unused" /\ probe = "unused"

----------------------------------------------------------------------------
Init == InitModular \/ InitSingle

Next ==
  \/ Frame \/ KeyE \/ KeyQ
  \/ Tick \/ KeyDown \/ KeyUp \/ MouseDown \/ NoteClose \/ TimerFires
  \/ QuickItemInterval

Spec == Init /\ [][Next]_vars

----------------------------------------------------------------------------
(* Properties *)

Modular == build = "modular"
Single == build = "single"

hpNow == IF Modular THEN state.hp ELSE STATE_.hp
sanityNow == IF Modular THEN state.sanity ELSE STATE_.sanity

\* the enemy updates the last handler ran, and the invocations it made
Updates == IF ev.op \in {"frame", "tick"} THEN ev.ai ELSE <<>>
Invocations == IF ev.op = "init" THEN <<>> ELSE ev.invoked

\* C1: after any sequence of ticks, attacks, pickups, notes, TV and door
\* interactions and quick-use events, health and sanity are within [0,100],
\* also right after each invoked action; a sanity delta of -50 applied to
\* sanity 10 gives 0
C1_HealthAndSanityInRange ==
  /\ hpNow \in 0..Full /\ sanityNow \in 0..Full
  /\ \A k \in 1..Len(Invocations) :
       /\ Invocations[k].post.hp \in 0..Full
       /\ Invocations[k].post.sanity \in 0..Full
  /\ addSanity([sanity |-> 1000], -5000).sanity = 0

\* a pickup whose sanity loss exceeded the sanity left, which ended at 0
C1_ClampedAtZero ==
  /\ Modular /\ ev.op = "keyE" /\ Len(ev.invoked) = 1
  /\ ev.invoked[1].target = itemTarget("MIRROR")
  /\ ev.invoked[1].pre.sanity \in 1..2199
  /\ state.sanity = 0

\* C3: after AIController.update an enemy is in chase exactly when its
\* distance to the player on that tick is below 18 + 10*fear, and in wander
\* otherwise, whatever its state was before
C3_ChaseIffWithinAggroRadius ==
  Modular =>
    /\ \A k \in 1..Len(Updates) :
         LET r == Updates[k] IN
         /\ r.now \in {"chase", "wander"}
         /\ r.now = "chase" <=> r.d2 * 10000 < (18000 + r.fear) * (18000 + r.fear)
    /\ ev.op = "frame" /\ ev.steps > 0 =>
         \A i \in 1..Len(ai) :
           \E k \in 1..Len(Updates) : Updates[k].enemy = i /\ Updates[k].now = ai[i].state

\* an enemy that was in wander, 10 units from the player at fear 0, is in chase
C3_WanderToChaseAtTen ==
  /\ Modular
  /\ \E k \in 1..Len(Updates) :
       /\ Updates[k].was = "wander" /\ Updates[k].now = "chase"
       /\ Updates[k].d2 = 100 * 100 /\ Updates[k].fear = 0

\* C4: an enemy that is not chasing on a tick applies no damage on that
\* tick, and health falls during a frame or a tick only by the hit of a
\* chasing enemy
C4_DamageOnlyFromChase ==
  /\ \A k \in 1..Len(Updates) : Updates[k].hit => Updates[k].now = "chase"
  /\ ev.op \in {"frame", "tick"} /\ hpNow < ev.hp0 =>
       \E k \in 1..Len(Updates) : Updates[k].hit /\ Updates[k].now = "chase"

\* a chasing enemy hit the player and health fell
C4_ChaseHit ==
  /\ ev.op \in {"frame", "tick"} /\ hpNow < ev.hp0
  /\ \E k \in 1..Len(Updates) : Updates[k].hit /\ Updates[k].now = "chase"

\* the run has ended
Dead == IF Modular THEN ~state.playing ELSE ~STATE_.playing

\* C2: a run ends when health or sanity reaches 0; the reason is reported
\* once and never replaced, and health is looked at first: with health at 0
\* the reason shown is the physical one, else with sanity at 0 the
\* corruption one
C2_ExactlyOneDeathReason ==
  /\ Len(ui.reports) <= 1
  /\ Dead => Len(ui.reports) = 1
  /\ Dead /\ hpNow <= 0 => ui.deathReason = "PHYSICAL TRAUMA CRITICAL"
  /\ Dead /\ hpNow > 0 /\ sanityNow <= 0 => ui.deathReason = "SYSTEM CORRUPTION 100%"

\* C5: an enemy applies damage only within its attack radius and with its
\* cooldown run out; the hit resets the cooldown to no less than 0.55 s (in
\* the modular build to exactly 0.55 s, of which the step's dt is taken off
\* at once), and two hits of the same enemy are at least 0.55 s apart
C5_HitsInRangeOffCooldownAndSpaced ==
  \A k \in 1..Len(Updates) :
    LET r == Updates[k] IN
    r.hit =>
      IF Modular
      THEN /\ r.d2 < attackRadius * attackRadius
           /\ r.cd <= 0
           /\ r.after = hitCooldownReset - step
           /\ r.gap < 0 \/ r.gap >= hitCooldownReset
      ELSE /\ r.d < enemyAttackDist
           /\ r.cd <= 0
           /\ r.after >= attackCDMin
           /\ r.gap < 0 \/ r.gap >= attackCDMin

\* an enemy hits for the second time, its cooldown having run out
C5_SecondHit ==
  \E k \in 1..Len(Updates) : Updates[k].hit /\ Updates[k].gap >= 0

\* C5 as stated: the interval the hit resets the cooldown to is the fixed 0.55 s
C5_ResetIsFixedInterval ==
  \A k \in 1..Len(Updates) :
    LET r == Updates[k] IN
    r.hit => IF Modular THEN r.after = hitCooldownReset - step
                        ELSE r.after = attackCDMin

\* what an invocation left alone: health, the inventory, the items, the doors
sameButSanity(e) ==
  /\ e.post.hp = e.pre.hp /\ e.post.inventory = e.pre.inventory
  /\ e.post.items = e.pre.items /\ e.post.doors = e.pre.doors

\* C6: the action of a locked door whose key is not held (a door of the
\* modular build without its keyId in the inventory, a pocket door of the
\* single-file build with no pocket key, the pocket gate without the surface
\* key) leaves the door locked and unopened and the inventory as it was, and
\* takes the door's penalty off sanity, clamped at 0
C6_LockedDoorWithoutKeyStaysLocked ==
  \A k \in 1..Len(Invocations) :
    LET e == Invocations[k] IN
    e.target.kind = "door" =>
      LET d == e.pre.doors[e.target.door] IN
      IF Modular
      THEN d.locked /\ ~d.opened /\ d.keyId \notin e.pre.inventory =>
             /\ sameButSanity(e)
             /\ e.post.sanity = Max(e.pre.sanity - lockedPenalty, 0)
      ELSE /\ d.kind = "pocketDoor" /\ d.locked /\ e.pre.inventory.keys = 0 =>
                /\ sameButSanity(e)
                /\ e.post.sanity = Max(e.pre.sanity - pocketDoorPenalty, 0)
           /\ d.kind = "pocketGate" /\ ~e.pre.inventory.hasKey =>
                /\ sameButSanity(e)
                /\ e.post.sanity = Max(e.pre.sanity - gatePenalty, 0)

\* a locked door was tried without its key, lost the penalty and is still locked
C6_DoorRefused ==
  /\ Len(Invocations) = 1
  /\ Invocations[1].target.kind = "door"
  /\ LET e == Invocations[1]
         d == e.post.doors[e.target.door] IN
     /\ d.locked
     /\ e.post.sanity < e.pre.sanity
     /\ IF Modular THEN ~d.opened /\ d.keyId \notin e.pre.inventory
        ELSE ~d.open /\ d.kind = "pocketDoor" /\ e.pre.inventory.keys = 0

\* C7: a door's lock is released by its action only with the door's key
\* held (the keyId in the inventory; a pocket key in the single-file build);
\* the unlock takes that key out of the inventory and leaves the door
\* unlocked and opened, and with the key held the unlock does succeed
C7_UnlockNeedsAndConsumesKey ==
  \A k \in 1..Len(Invocations) :
    LET e == Invocations[k] IN
    e.target.kind = "door" =>
      LET i == e.target.door
          d == e.pre.doors[i] IN
      IF Modular
      THEN /\ d.locked /\ ~e.post.doors[i].locked =>
                /\ d.keyId \in e.pre.inventory
                /\ e.post.inventory = e.pre.inventory \ {d.keyId}
                /\ e.post.doors[i].opened
                /\ \A j \in 1..Len(e.pre.doors) : j # i => e.post.doors[j] = e.pre.doors[j]
           /\ d.locked /\ ~d.opened /\ d.keyId \in e.pre.inventory =>
                ~e.post.doors[i].locked /\ e.post.doors[i].opened
      ELSE d.kind = "pocketDoor" =>
             /\ d.locked /\ ~e.post.doors[i].locked =>
                  /\ e.pre.inventory.keys > 0
                  /\ e.post.inventory.keys = e.pre.inventory.keys - 1
                  /\ e.post.doors[i].open
                  /\ \A j \in 1..Len(e.pre.doors) : j # i => e.post.doors[j] = e.pre.doors[j]
             /\ d.locked /\ e.pre.inventory.keys > 0 =>
                  ~e.post.doors[i].locked /\ e.post.doors[i].open

\* the one key held opened the first of two doors with the same keyId; the
\* second is tried next and stays locked
C7_OneKeyOneDoor ==
  /\ Modular /\ Len(Invocations) = 1
  /\ \E i \in 1..Len(world.doors) : \E j \in 1..Len(world.doors) :
       /\ i # j /\ world.doors[i].keyId = world.doors[j].keyId
       /\ world.doors[i].opened /\ ~world.doors[i].locked
       /\ Invocations[1].target = doorTarget(j)
       /\ world.doors[j].locked /\ ~world.doors[j].opened
       /\ state.inventory = {}

\* C8 as stated: the action of a consumed interactable (a taken key, a picked
\* item, an opened door) changes neither health, sanity, the inventory nor
\* the items
C8_ConsumedActionIsNoOp ==
  \A k \in 1..Len(Invocations) :
    LET e == Invocations[k] IN
    e.consumed =>
      /\ e.post.hp = e.pre.hp /\ e.post.sanity = e.pre.sanity
      /\ e.post.inventory = e.pre.inventory /\ e.post.items = e.pre.items

\* C9 as stated: an interact input makes one invocation of the target's
\* action if there is a target and none if there is none, and nothing is
\* invoked without an interact input
C9_OneInvocationPerInteractInput ==
  /\ Modular /\ ev.op = "keyE" /\ ev.live =>
       Len(ev.invoked) = IF ev.target # null THEN 1 ELSE 0
  /\ Modular /\ ev.op \in {"frame", "keyQ"} => Len(ev.invoked) = 0
  /\ Single /\ ev.op = "tick" =>
       Len(ev.invoked) = IF ev.target # NoInteract THEN ev.asked ELSE 0
  /\ Single /\ ev.op = "event" => Len(ev.invoked) = 0

\* the doors of the area that an invocation of the last handler left open
openedNow(a, e) ==
  { i \in 1..Len(a.doors) :
      /\ a.doors[i].open
      /\ \E k \in 1..Len(e.invoked) : e.invoked[k].target = doorOf(i) }

\* C10: while the area is the same, a handler changes the occupancy grid
\* only in the action of a door that it leaves open, and only by clearing
\* the cell of that door; every other cell keeps its value through ticks
\* (movement, enemies, collision tests, the interaction scan) and events
C10_GridWrittenOnlyByDoorActivation ==
  [][ Single /\ area'.name = area.name =>
        /\ ev'.wrote \subseteq
             { idxOf(area.size, area'.doors[i].cx, area'.doors[i].cz) :
                 i \in openedNow(area', ev') }
        /\ \A id \in DOMAIN area.solids :
             area'.solids[id] = IF id \in ev'.wrote THEN 0 ELSE area.solids[id] ]_vars

\* a tick opened a pocket door and cleared the cell of that door
C10_DoorCellCleared ==
  /\ Single /\ ev.op = "tick"
  /\ \E i \in openedNow(area, ev) :
       /\ ev.wrote = { idxOf(area.size, area.doors[i].cx, area.doors[i].cz) }
       /\ area.solids[idxOf(area.size, area.doors[i].cx, area.doors[i].cz)] = 0

\* the place of a subsystem in the order of a tick: movement and collision,
\* the AI, the affect decay and events, the interaction scan and dispatch
rank(x) ==
  CASE x = "tick" -> 0
    [] x = "player" -> 1
    [] x = "ai" -> 2
    [] x \in {"decay", "affect"} -> 3
    [] x \in {"scan", "dispatch"} -> 4

\* the subsystems the last handler ran, in order
Order == IF ev.op = "init" THEN <<>> ELSE ev.order

\* C18 as stated: the subsystems of a tick run as player movement, AI
\* update, affect decay and events, interaction scan and dispatch; between
\* two tick starts no subsystem runs before one of a lower place
C18_SubsystemsInFixedOrder ==
  \A i \in 1..Len(Order) : \A j \in 1..Len(Order) :
    /\ i < j
    /\ \A k \in (i + 1)..j : Order[k] # "tick"
    => rank(Order[i]) <= rank(Order[j])

\* C20 as stated: where AIController.update reads api.fear, it is
\* 1 - sanity/100 of the sanity of that moment, within [0,1]
C20_FearIsOneMinusSanity ==
  Modular =>
    \A k \in 1..Len(Updates) :
      /\ Updates[k].fear = fearOf(Updates[k].sanity)
      /\ Updates[k].fear \in 0..10000

----------------------------------------------------------------------------
(* Collision queries.  The modular build keeps World.grid (1 is a wall) and *)
(* pushes a sphere out of the walls with collideSphere; the single-file     *)
(* build answers collidesAt from area.solids.  Lengths of this part are     *)
(* hundredths of a world unit, so that one cell of the World is 200.        *)

\* this.cell = 2.0
cell == 200

\* idx(cx, cz), isWallCell(cx, cz), setWall(cx, cz, v)
idx(w, cx, cz) == cz * w.gridW + cx

\* for (k = lo; k < hi; k++) v = Op(v, k), the halves of lo..hi - 1 in turn
RECURSIVE loop(_, _, _, _)
loop(Op(_, _), v, lo, hi) ==
  IF hi <= lo THEN v
  ELSE IF hi = lo + 1 THEN Op(v, lo)
  ELSE at(loop(Op, v, lo, (lo + hi) \div 2),
          LAMBDA u : loop(Op, u, (lo + hi) \div 2, hi))

isWallCell(w, cx, cz) == at(w, LAMBDA v : v.grid[idx(v, cx, cz)] = 1)
setWall(w, cx, cz, v) ==
  at(w, LAMBDA u : [u EXCEPT !.grid[idx(u, cx, cz)] = IF v THEN 1 ELSE 0])

\* worldToCell(x, z): the cell index is clamped into the grid
worldToCell(w, x, z) ==
  [cx |-> clamp(x \div cell, 0, w.gridW - 1),
   cz |-> clamp(z \div cell, 0, w.gridH - 1)]

\* cellToWorld(cx, cz): the centre of the cell
cellToWorld(cx, cz) == [x |-> cx * cell + cell \div 2, z |-> cz * cell + cell \div 2]

\* Math.sqrt, rounded down to a hundredth
sqrt(n) == CHOOSE d \in 0..n : d * d <= n /\ n < (d + 1) * (d + 1)

\* squared distance from pos to the box of the cell (x, z)
boxDist2(pos, x, z) ==
  LET wc == cellToWorld(x, z)
      dxp == pos.x - clamp(pos.x, wc.x - cell \div 2, wc.x + cell \div 2)
      dzp == pos.z - clamp(pos.z, wc.z - cell \div 2, wc.z + cell \div 2)
  IN dxp * dxp + dzp * dzp

\* a push out of a wall whenever the sphere is within twice its radius
pushOutEager(w, pos, x, z, radius) ==
  IF x < 0 \/ z < 0 \/ x >= w.gridW \/ z >= w.gridH THEN pos
  ELSE IF ~isWallCell(w, x, z) THEN pos
  ELSE LET wc == cellToWorld(x, z)
           dxp == pos.x - clamp(pos.x, wc.x - cell \div 2, wc.x + cell \div 2)
           dzp == pos.z - clamp(pos.z, wc.z - cell \div 2, wc.z + cell \div 2)
           d2 == dxp * dxp + dzp * dzp
       IN IF d2 < 4 * radius * radius /\ d2 > 0
          THEN LET d == sqrt(d2) IN
               [x |-> pos.x + (dxp * (2 * radius - d)) \div d,
                z |-> pos.z + (dzp * (2 * radius - d)) \div d]
          ELSE pos

\* a push that throws a sphere whose centre lies in the box of a wall out of
\* the box, to one radius before its side
pushOutEject(w, pos, x, z, radius) ==
  IF x < 0 \/ z < 0 \/ x >= w.gridW \/ z >= w.gridH THEN pos
  ELSE IF ~isWallCell(w, x, z) THEN pos
  ELSE LET wc == cellToWorld(x, z)
           dxp == pos.x - clamp(pos.x, wc.x - cell \div 2, wc.x + cell \div 2)
           dzp == pos.z - clamp(pos.z, wc.z - cell \div 2, wc.z + cell \div 2)
           d2 == dxp * dxp + dzp * dzp
       IN IF d2 = 0 THEN [x |-> wc.x - cell \div 2 - radius, z |-> pos.z]
          ELSE IF d2 < radius * radius
          THEN LET d == sqrt(d2) IN
               [x |-> pos.x + (dxp * (radius - d)) \div d,
                z |-> pos.z + (dzp * (radius - d)) \div d]
          ELSE pos

\* the body of the two loops of collideSphere for the cell (x, z): a cell
\* off the grid and a cell that is no wall are skipped; the sphere is
\* pushed out of the box of a wall when d2 < r2 && d2 > 0.000001
pushOut(w, pos, x, z, radius) ==
  IF x < 0 \/ z < 0 \/ x >= w.gridW \/ z >= w.gridH THEN pos
  ELSE IF ~isWallCell(w, x, z) THEN pos
  ELSE LET wc == cellToWorld(x, z)
           dxp == pos.x - clamp(pos.x, wc.x - cell \div 2, wc.x + cell \div 2)
           dzp == pos.z - clamp(pos.z, wc.z - cell \div 2, wc.z + cell \div 2)
           d2 == dxp * dxp + dzp * dzp
       IN IF d2 < radius * radius /\ d2 > 0
          THEN LET d == sqrt(d2) IN
               [x |-> pos.x + (dxp * (radius - d)) \div d,
                z |-> pos.z + (dzp * (radius - d)) \div d]
          ELSE pos

\* for (dz = -1..1) for (dx = -1..1): the nine cells around (cx, cz), in order
around == << <<-1, -1>>, <<0, -1>>, <<1, -1>>, <<-1, 0>>, <<0, 0>>, <<1, 0>>,
             <<-1, 1>>, <<0, 1>>, <<1, 1>> >>

RECURSIVE collideFrom(_, _, _, _, _)
collideFrom(w, pos, c, radius, k) ==
  IF k > Len(around) THEN pos
  ELSE collideFrom(w, pushOut(w, pos, c.cx + around[k][1], c.cz + around[k][2], radius),
                   c, radius, k + 1)

\* collideSphere(pos, radius): the position it leaves in pos
collideSphere(w, pos, radius) ==
  collideFrom(w, pos, worldToCell(w, pos.x, pos.z), radius, 1)

\* side of the grid the queries are put to
ProbeGridW == 7

\* a World whose two outer rings are walls (the border loop of
\* _carveCourtyard), with the walls given inside
probeWorld(inner) ==
  [gridW |-> ProbeGridW, gridH |-> ProbeGridW,
   grid |-> [i \in 0..(ProbeGridW * ProbeGridW - 1) |->
               LET cx == i % ProbeGridW
                   cz == i \div ProbeGridW
               IN IF cx < 2 \/ cz < 2 \/ cx > ProbeGridW - 3 \/ cz > ProbeGridW - 3
                     \/ <<cx, cz>> \in inner
                  THEN 1 ELSE 0]]

\* the coordinates asked about: off the grid on either side, inside the
\* border wall, in the open at 45, 55 and 100 from the border wall, and at
\* 55 and 40 from the inner wall
ProbeCoords == {-300, -30, 100, 445, 455, 500, 745, 760,
                ProbeGridW * cell + 30, ProbeGridW * cell + 300}

\* Player.radius 0.42 and the 0.55 of AIController.update
ProbeRadii == {42, 55}

\* the cells asked about in the single-file build: on the grid and up to
\* three cells off it
ProbeCells == { <<x, z>> : x \in (-3)..8, z \in (-3)..8 }

InitProbe ==
  /\ build \in {"modular", "single"}
  /\ IF build = "modular"
     THEN \E x \in ProbeCoords, z \in ProbeCoords, r \in ProbeRadii :
            probe = [world |-> probeWorld({<<4, 3>>}), pos |-> [x |-> x, z |-> z],
                     radius |-> r, out |-> <<>>]
     ELSE \E c \in ProbeCells :
            probe = [area |-> fightArea, c |-> c, answers |-> <<>>]
  /\ state = "unused" /\ api = "unused" /\ ai = "unused" /\ world = "unused"
  /\ current = "unused" /\ acc = "unused" /\ player = "unused"
  /\ STATE_ = "unused" /\ INPUT = "unused" /\ area = "unused" /\ timers = "unused"
  /\ ui = "unused" /\ hist = "unused" /\ ev = "unused" /\ gen = "unused"

\* this.world.collideSphere(position, radius), called on the position the
\* call before left
Resolve ==
  /\ build = "modular"
  /\ Len(probe.out) < 2
  /\ probe' = [probe EXCEPT !.out =
                 Append(@, collideSphere(probe.world,
                                         IF Len(@) = 0 THEN probe.pos ELSE @[Len(@)],
                                         probe.radius))]
  /\ UNCHANGED <<build, state, api, ai, player, world, current, acc,
                 STATE_, INPUT, area, timers, ui, hist, ev, gen>>

\* collidesAt(area, x, z, radius)
Query ==
  /\ build = "single"
  /\ Len(probe.answers) < 2
  /\ probe' = [probe EXCEPT !.answers = Append(@, collidesAt(probe.area, probe.c))]
  /\ UNCHANGED <<build, state, api, ai, player, world, current, acc,
                 STATE_, INPUT, area, timers, ui, hist, ev, gen>>

NextProbe == Resolve \/ Query

ProbeSpec == InitProbe /\ [][NextProbe]_vars

\* the position asked about lies off the grid
offGrid ==
  IF build = "modular"
  THEN \/ probe.pos.x < 0 \/ probe.pos.x >= probe.world.gridW * cell
       \/ probe.pos.z < 0 \/ probe.pos.z >= probe.world.gridH * cell
  ELSE ~inBounds(probe.area, probe.c[1], probe.c[2])

\* no wall of the grid is closer to the position than the radius
collisionFree ==
  \A cx \in 0..(probe.world.gridW - 1), cz \in 0..(probe.world.gridH - 1) :
    isWallCell(probe.world, cx, cz)
      => boxDist2(probe.pos, cx, cz) >= probe.radius * probe.radius

\* C16 as stated: a query for a position off the grid answers 'blocked' in
\* both builds: collidesAt answers true, and collideSphere does not leave
\* the position where it is, as it leaves a free position
C16_OffGridIsBlocked ==
  offGrid =>
    IF build = "modular"
    THEN Len(probe.out) >= 1 => probe.out[1] # probe.pos
    ELSE \A k \in 1..Len(probe.answers) : probe.answers[k]

\* C17: collideSphere leaves a collision-free position where it is, and a
\* second call on the position it returned returns that position again
C17_ResolveIdempotentWhenFree ==
  build = "modular" /\ collisionFree =>
    \A k \in 1..Len(probe.out) : probe.out[k] = probe.pos

\* collideSphere was called twice on a position in the open that is exactly
\* one radius away from the inner wall
C17_ResolvedTwiceAtTheWall ==
  /\ build = "modular"
  /\ collisionFree
  /\ probe.radius = 55 /\ probe.pos = [x |-> 745, z |-> 745]
  /\ Len(probe.out) = 2
  /\ probe.out[2] = probe.out[1]

----------------------------------------------------------------------------
(* The start sequence of the two builds.  gen.pc is the await the boot or   *)
(* the click handler of the start button is suspended at; generating the    *)
(* world is kept as the flag gen.generated, and a run of the simulation     *)
(* step (updateOne, tick) as the counters gen.ticks and gen.early, the      *)
(* latter counting the steps run while no world was generated.              *)

\* the textures Assets.loadAll and loadAssets load
textureCount == 8

\* simulation steps followed during a start sequence
MaxBootTicks == 3

\* difficultySel.value
Difficulties == 0..2

InitStart ==
  /\ build \in {"modular", "single"}
  /\ gen = [pc |-> IF build = "modular" THEN "loadAll" ELSE "menu",
            loaded |-> 0, placeholders |-> 0, audio |-> "off", difficulty |-> 0,
            playing |-> FALSE, generated |-> FALSE, threw |-> FALSE,
            ticks |-> 0, early |-> 0]
  /\ state = "unused" /\ api = "unused" /\ ai = "unused" /\ world = "unused"
  /\ current = "unused" /\ acc = "unused" /\ player = "unused"
  /\ STATE_ = "unused" /\ INPUT = "unused" /\ area = "unused" /\ timers = "unused"
  /\ ui = "unused" /\ hist = "unused" /\ ev = "unused" /\ probe = "unused"

\* the variables the start sequence leaves alone
startFrame ==
  UNCHANGED <<build, state, api, ai, player, world, current, acc,
              STATE_, INPUT, area, timers, ui, hist, ev, probe>>

\* modular boot: this.tex.x = await load(url), one texture after the other;
\* a load error rejects the promise, loadAll and boot with it: the start
\* listener is never registered and frame is never requested.  After the last
\* texture boot goes on to register the listeners and request the first frame.
LoadTexture ==
  /\ build = "modular"
  /\ gen.pc = "loadAll"
  /\ \E ok \in BOOLEAN :
       gen' = IF ~ok THEN [gen EXCEPT !.pc = "aborted", !.threw = TRUE]
              ELSE [gen EXCEPT !.loaded = @ + 1,
                               !.pc = IF gen.loaded + 1 = textureCount
                                      THEN "menu" ELSE "loadAll"]
  /\ startFrame

\* modular: the click handler of startBtn up to await audio.start():
\* state.difficulty is read, state.playing = true
StartClick ==
  /\ build = "modular"
  /\ gen.pc = "menu"
  /\ \E d \in Difficulties :
       gen' = [gen EXCEPT !.pc = "audio.start", !.difficulty = d, !.playing = TRUE]
  /\ startFrame

\* modular: audio.start() settles.  addModule resolved: the handler goes on
\* with world.generate(...) and ai.spawnEnemies(10, difficulty).  addModule
\* rejected: audio.start() and the handler reject, nothing after the await runs.
AudioStart ==
  /\ build = "modular"
  /\ gen.pc = "audio.start"
  /\ \E ok \in BOOLEAN :
       gen' = IF ok THEN [gen EXCEPT !.pc = "started", !.audio = "on",
                                     !.generated = TRUE]
              ELSE [gen EXCEPT !.pc = "rejected", !.threw = TRUE]
  /\ startFrame

\* modular: function frame(now), requested at the end of boot and by itself:
\* if (!state.playing) return; otherwise the fixed steps run
FrameAtStart ==
  /\ build = "modular"
  /\ gen.pc \in {"menu", "audio.start", "started", "rejected"}
  /\ gen.playing
  /\ gen.ticks < MaxBootTicks
  /\ gen' = [gen EXCEPT !.ticks = @ + 1,
                        !.early = IF gen.generated THEN @ ELSE @ + 1]
  /\ startFrame

\* single-file: the click handler of UI.startBtn up to await ensureAudio()
StartClick1 ==
  /\ build = "single"
  /\ gen.pc = "menu"
  /\ gen' = [gen EXCEPT !.pc = "ensureAudio"]
  /\ startFrame

\* single-file: ensureAudio() settles; its body is inside try/catch and
\* answers false when addModule rejects; the resume() that follows is inside
\* try/catch as well
EnsureAudio ==
  /\ build = "single"
  /\ gen.pc = "ensureAudio"
  /\ \E ok \in BOOLEAN :
       gen' = [gen EXCEPT !.pc = "loadAssets", !.audio = IF ok THEN "on" ELSE "none"]
  /\ startFrame

\* single-file: await loadAssets() settles: Promise.all of loadTex, whose
\* error callback resolves with a 1x1 canvas texture.  The handler then resets
\* STATE, calls generateSurface(), sets STATE.playing and calls tick().
LoadAssets ==
  /\ build = "single"
  /\ gen.pc = "loadAssets"
  /\ \E failed \in 0..textureCount :
       gen' = [gen EXCEPT !.pc = "started", !.loaded = textureCount - failed,
                          !.placeholders = failed, !.generated = TRUE,
                          !.playing = TRUE, !.ticks = 1]
  /\ startFrame

\* single-file: tick(), requested by itself after each run
TickAtStart ==
  /\ build = "single"
  /\ gen.pc = "started" /\ gen.playing
  /\ gen.ticks < MaxBootTicks
  /\ gen' = [gen EXCEPT !.ticks = @ + 1,
                        !.early = IF gen.generated THEN @ ELSE @ + 1]
  /\ startFrame

NextStart ==
  \/ LoadTexture \/ StartClick \/ AudioStart \/ FrameAtStart
  \/ StartClick1 \/ EnsureAudio \/ LoadAssets \/ TickAtStart

StartSpec == InitStart /\ [][NextStart]_vars

\* C19 as stated: no simulation step runs before the loads have settled and
\* the world has been generated, and no failed load throws out of the start
\* sequence
C19_NoTickBeforeStartCompleted ==
  gen.early = 0 /\ ~gen.threw

----------------------------------------------------------------------------
(* World generation.  A generator is followed one loop iteration at a time; *)
(* gen.pc names the loop it is in.  The areas are scaled down: the side of  *)
(* the grid, the number of objects asked for and the attempt budgets of the *)
(* loops are the bounds below; the literals of the code that place things   *)
(* relative to the side of the grid are kept.  The draws of Math.random are *)
(* inputs of the actions, taken from sets of outcomes the calls can give.   *)

\* CFG.pocket.areaSize (80), CFG.pocket.roomCount (12)
areaSize == 17
roomCount == 2

\* CFG.pocket.roomMin, CFG.pocket.roomMax
roomMin == 5
roomMax == 11

\* attempts < 5000 of the room loop, tries < 6000 of the key loop, i < 20 of
\* the pocket door loop, tries < 7000 of the exit loop, tries < 10000 of the
\* spawn loop of enterPocket
roomAttempts == 3
keyTries == 5
pocketDoorRolls == 1
exitTries == 2
spawnTries == 2

\* function rectsOverlap(a, b)
rectsOverlap(a, b) ==
  ~(a.x + a.w <= b.x \/ b.x + b.w <= a.x \/ a.z + a.h <= b.z \/ b.z + b.h <= a.z)

\* the accepted room as such, not expanded
notExpanded(o) == o

\* { x: o.x - 2, z: o.z - 2, w: o.w + 4, h: o.h + 4 }
expanded(o) == [x |-> o.x - 2, z |-> o.z - 2, w |-> o.w + 4, h |-> o.h + 4]

\* rooms.some(o => rectsOverlap(r, expanded o))
tooClose(rooms, r) == \E i \in 1..Len(rooms) : rectsOverlap(r, expanded(rooms[i]))

\* const r = { x, z, w, h, cx: (x + (w / 2)) | 0, cz: (z + (h / 2)) | 0 }
roomAt(x, z, w, h) ==
  [x |-> x, z |-> z, w |-> w, h |-> h, cx |-> (2 * x + w) \div 2, cz |-> (2 * z + h) \div 2]

\* the cells of a set cleared or filled through addCellSolid, which leaves
\* cells off the grid alone
fillCells(a, cells, solid) ==
  at(a, LAMBDA v : at(cells, LAMBDA cs :
    [v EXCEPT !.solids = [id \in DOMAIN v.solids |->
       IF <<id % v.size, id \div v.size>> \in cs THEN solid ELSE v.solids[id]]]))

\* function carveRect(x0, z0, w, h): the two outer rings are skipped
carveRect(a, x0, z0, w, h) ==
  fillCells(a, { <<x, z>> \in (x0..(x0 + w - 1)) \X (z0..(z0 + h - 1)) :
                   ~(x <= 1 \/ z <= 1 \/ x >= a.size - 2 \/ z >= a.size - 2) }, 0)

\* carveLine(ax, az, bx, bz) with cw = CFG.pocket.corridorWidth = 2: the
\* offsets ox, oz run over -1..1
carveLine(a, ax, az, bx, bz) ==
  LET sgn(v) == IF v > 0 THEN 1 ELSE IF v < 0 THEN -1 ELSE 0
      abs(v) == IF v < 0 THEN -v ELSE v
      steps == Max(abs(bx - ax), abs(bz - az))
  IN fillCells(a, { <<ax + i * sgn(bx - ax) + ox, az + i * sgn(bz - az) + oz>> :
                      i \in 0..steps, ox \in (-1)..1, oz \in (-1)..1 }, 0)

\* function carveCorridor(x1, z1, x2, z2); first is Math.random() < 0.5
carveCorridor(a, x1, z1, x2, z2, first) ==
  IF first THEN carveLine(carveLine(a, x1, z1, x2, z1), x2, z1, x2, z2)
  ELSE carveLine(carveLine(a, x1, z1, x1, z2), x1, z2, x2, z2)

\* for (let i = 1; i < rooms.length; i++) carveCorridor(a.cx, a.cz, b.cx, b.cz)
RECURSIVE connectRooms(_, _, _, _)
connectRooms(a, rooms, firsts, i) ==
  IF i > Len(rooms) THEN a
  ELSE connectRooms(carveCorridor(a, rooms[i - 1].cx, rooms[i - 1].cz,
                                  rooms[i].cx, rooms[i].cz, firsts[i]),
                    rooms, firsts, i + 1)

\* the rooms drawn: w, h = roomMin + randInt(roomMax - roomMin + 1) and
\* x = 2 + randInt(size - w - 4), z alike; four rooms exactly far enough from
\* each other, a room inside the margin of the first, and the largest room
RoomDraws ==
  { r \in { roomAt(2, 2, roomMin, roomMin), roomAt(9, 2, roomMin, roomMin),
            roomAt(2, 9, roomMin, roomMin), roomAt(9, 9, roomMin, roomMin),
            roomAt(8, 2, roomMin, roomMin),
            roomAt(2, 2, roomMax, roomMax) } :
      /\ r.x \in 2..(areaSize - r.w - 3)
      /\ r.z \in 2..(areaSize - r.h - 3) }

\* the cells drawn by the loops that look for an empty cell,
\* 2 + randInt(size - 4): the middle of two rooms, and the corner no room
\* and no corridor reaches
PocketCells == { <<4, 4>>, <<11, 11>>, <<areaSize - 3, areaSize - 3>> }

\* the cells drawn for the pocket doors, 3 + randInt(size - 6): the corner of
\* a room, the inside of a room
PocketDoorCells == { <<6, 6>>, <<3, 3>> }

\* randInt(Math.max(1, r.w - 2)) of the exit loop
ExitOffsets == {0}

\* generatePocket up to the room loop: clearArea, initAreaGrids,
\* area.solids.fill(1)
pocketStart ==
  [kind |-> "pocket", pc |-> "rooms",
   area |-> [size |-> areaSize, solids |-> [id \in 0..(areaSize * areaSize - 1) |-> 1],
             doors |-> <<>>, exitCell |-> FALSE],
   rooms |-> <<>>, attempts |-> 0, placedKeys |-> 0, tries |-> 0, spawn |-> <<>>]

\* a loop head that forgets its budget
goesOnWhileWanting(n, budget, wanting) == wanting

\* the head of a placement loop: n < budget && wanting, where wanting is
\* rooms.length < roomCount, placedKeys < keyCount, !exitPlaced, or true for
\* a loop left by break or return
goesOn(n, budget, wanting) == n < budget /\ wanting

\* the variables a generator leaves alone
genFrame ==
  UNCHANGED <<build, state, api, ai, player, world, current, acc,
              STATE_, INPUT, area, timers, ui, hist, ev, probe>>

\* generatePocket: one iteration of the room loop
\* while (rooms.length < CFG.pocket.roomCount && attempts < 5000)
PlaceRoom ==
  /\ gen.kind = "pocket" /\ gen.pc = "rooms"
  /\ \E r \in RoomDraws :
       LET rooms1 == IF tooClose(gen.rooms, r) THEN gen.rooms ELSE Append(gen.rooms, r)
           area1 == IF tooClose(gen.rooms, r) THEN gen.area
                    ELSE carveRect(gen.area, r.x, r.z, r.w, r.h)
       IN gen' = [gen EXCEPT !.attempts = @ + 1, !.rooms = rooms1, !.area = area1,
                             !.pc = IF goesOn(gen.attempts + 1, roomAttempts,
                                             Len(rooms1) < roomCount)
                                    THEN "rooms" ELSE "corridors"]
  /\ genFrame

\* generatePocket: the corridors between each room and the next
ConnectRooms ==
  /\ gen.kind = "pocket" /\ gen.pc = "corridors"
  /\ \E firsts \in [2..Len(gen.rooms) -> BOOLEAN] :
       gen' = [gen EXCEPT !.area = connectRooms(gen.area, gen.rooms, firsts, 2),
                          !.pc = "keys"]
  /\ genFrame

\* generatePocket: one iteration of the key loop
\* for (tries = 0; tries < 6000 && placedKeys < CFG.pocket.keyCount; tries++)
PlaceKey ==
  /\ gen.kind = "pocket" /\ gen.pc = "keys"
  /\ \E c \in PocketCells :
       LET placed == IF gen.area.solids[idxOf(gen.area.size, c[1], c[2])] = 0
                     THEN gen.placedKeys + 1 ELSE gen.placedKeys
           on == goesOn(gen.tries + 1, keyTries, placed < keyCount)
       IN gen' = [gen EXCEPT !.placedKeys = placed,
                             !.tries = IF on THEN @ + 1 ELSE 0,
                             !.pc = IF on THEN "keys" ELSE "doors"]
  /\ genFrame

\* generatePocket: one iteration of for (let i = 0; i < 20; i++): a pocket
\* door on an empty cell next to a wall; locked is
\* Math.random() < CFG.pocket.doorLockChance
PlacePocketDoor ==
  /\ gen.kind = "pocket" /\ gen.pc = "doors"
  /\ \E c \in PocketDoorCells, locked \in BOOLEAN :
       LET solid(x, z) == gen.area.solids[idxOf(gen.area.size, x, z)]
           nearWall == \/ solid(c[1] + 1, c[2]) = 1 \/ solid(c[1] - 1, c[2]) = 1
                       \/ solid(c[1], c[2] + 1) = 1 \/ solid(c[1], c[2] - 1) = 1
           on == goesOn(gen.tries + 1, pocketDoorRolls, TRUE)
       IN gen' = [gen EXCEPT
                    !.area.doors = IF solid(c[1], c[2]) = 0 /\ nearWall
                                   THEN Append(@, spawnDoor(c[1], c[2], "pocketDoor", locked))
                                   ELSE @,
                    !.tries = IF on THEN @ + 1 ELSE 0,
                    !.pc = IF on THEN "doors" ELSE "exit"]
  /\ genFrame

\* generatePocket: one iteration of the exit loop
\* for (tries = 0; tries < 7000 && !exitPlaced; tries++): a room drawn,
\* if (!r) break, a cell of its inside drawn, the exit door if it is empty
PlaceExit ==
  /\ gen.kind = "pocket" /\ gen.pc = "exit"
  /\ IF Len(gen.rooms) = 0
     THEN gen' = [gen EXCEPT !.tries = 0, !.pc = "spawn"]
     ELSE \E k \in 1..Len(gen.rooms), o \in ExitOffsets :
            LET r == gen.rooms[k]
                x == r.x + 1 + (o % Max(1, r.w - 2))
                z == r.z + 1 + (o % Max(1, r.h - 2))
                empty == gen.area.solids[idxOf(gen.area.size, x, z)] = 0
                on == goesOn(gen.tries + 1, exitTries, ~empty)
            IN gen' = [gen EXCEPT
                         !.area.doors = IF empty
                                        THEN Append(@, spawnDoor(x, z, "exitDoor", TRUE))
                                        ELSE @,
                         !.area.exitCell = IF empty THEN TRUE ELSE @,
                         !.tries = IF on THEN @ + 1 ELSE 0,
                         !.pc = IF on THEN "exit" ELSE "spawn"]
  /\ genFrame

\* enterPocket: one iteration of for (tries = 0; tries < 10000; tries++): the
\* player is put on the first empty cell drawn
FindPocketSpawn ==
  /\ gen.kind = "pocket" /\ gen.pc = "spawn"
  /\ \E c \in PocketCells :
       LET empty == gen.area.solids[idxOf(gen.area.size, c[1], c[2])] = 0
           on == goesOn(gen.tries + 1, spawnTries, ~empty)
       IN gen' = [gen EXCEPT !.spawn = IF empty THEN c ELSE @,
                             !.tries = IF on THEN @ + 1 ELSE 0,
                             !.pc = IF on THEN "spawn" ELSE "done"]
  /\ genFrame

\* onDoorInteract(area, door) on a pocket door of the generated pocket that
\* is unlocked or unlocked with a key held: door.open = true,
\* addCellSolid(area, door.cx, door.cz, 0, 0)
OpenPocketDoor ==
  /\ gen.kind = "pocket" /\ gen.pc = "done"
  /\ \E i \in 1..Len(gen.area.doors) :
       LET door == gen.area.doors[i]
           M == [area |-> [gen.area EXCEPT !.doors[i].open = TRUE,
                                           !.doors[i].locked = FALSE],
                 wrote |-> {}]
       IN /\ door.kind = "pocketDoor" /\ ~door.open
          /\ gen' = [gen EXCEPT !.area = addCellSolid(M, door.cx, door.cz, 0).area]
  /\ genFrame

\* CFG.citySize (48); tries < 3000 of the key loop and of the gate loop of
\* generateSurface
citySize == 8
surfaceTries == 2

\* generateSurface up to the building loop: clearArea, initAreaGrids
surfaceStart ==
  [kind |-> "surface", pc |-> "buildings",
   area |-> [size |-> citySize, solids |-> genSolids(citySize, {}),
             doors |-> <<>>, exitCell |-> FALSE],
   rooms |-> <<>>, attempts |-> 0, placedKeys |-> 0, tries |-> 0, spawn |-> <<>>]

\* the cells of the building loop: x, z in 2..size-3 off the roads
\* (x % 5 === 0) || (z % 5 === 0)
lots ==
  { c \in (2..(citySize - 3)) \X (2..(citySize - 3)) : c[1] % 5 # 0 /\ c[2] % 5 # 0 }

\* the outcomes of the draws Math.random() < 0.18 followed: no building, one
\* building, the four lots around a lot, every lot
BuildingDraws ==
  { b \cap lots : b \in { {}, {<<3, 3>>}, {<<2, 3>>, <<4, 3>>, <<3, 2>>, <<3, 4>>}, lots } }

\* the cells drawn by the loops that look for an empty cell,
\* 2 + randInt(size - 4): two lots and a crossing of roads
SurfaceCells == { <<3, 3>>, <<2, 2>>, <<5, 5>> }

\* generateSurface: the building loop, addCellSolid(area, x, z, 1, 2) on the
\* lots drawn
BuildSurface ==
  /\ gen.kind = "surface" /\ gen.pc = "buildings"
  /\ \E b \in BuildingDraws :
       gen' = [gen EXCEPT !.area = fillCells(gen.area, b, 1), !.pc = "key"]
  /\ genFrame

\* generateSurface: one iteration of the key loop
\* for (tries = 0; tries < 3000; tries++), left by break when the key is placed
PlaceSurfaceKey ==
  /\ gen.kind = "surface" /\ gen.pc = "key"
  /\ \E c \in SurfaceCells :
       LET empty == gen.area.solids[idxOf(gen.area.size, c[1], c[2])] = 0
           on == goesOn(gen.tries + 1, surfaceTries, ~empty)
       IN gen' = [gen EXCEPT !.placedKeys = IF empty THEN 1 ELSE @,
                             !.tries = IF on THEN @ + 1 ELSE 0,
                             !.pc = IF on THEN "key" ELSE "gate"]
  /\ genFrame

\* generateSurface: one iteration of the gate loop: on an empty cell
\* addCellSolid(area, x, z, 0, 0) and spawnDoor(area, x, z, "pocketGate"),
\* locked as no key is held at generation
PlaceGate ==
  /\ gen.kind = "surface" /\ gen.pc = "gate"
  /\ \E c \in SurfaceCells :
       LET empty == gen.area.solids[idxOf(gen.area.size, c[1], c[2])] = 0
           on == goesOn(gen.tries + 1, surfaceTries, ~empty)
           a1 == IF empty THEN fillCells(gen.area, {c}, 0) ELSE gen.area
       IN gen' = [gen EXCEPT
                    !.area = [a1 EXCEPT !.doors =
                                IF empty THEN Append(@, spawnDoor(c[1], c[2], "pocketGate", TRUE))
                                ELSE @],
                    !.tries = IF on THEN @ + 1 ELSE 0,
                    !.pc = IF on THEN "gate" ELSE "spawn"]
  /\ genFrame

\* the click handler of UI.startBtn after generateSurface(): one iteration
\* of for (tries = 0; tries < 8000; tries++), the player put on the first
\* empty cell drawn
FindSurfaceSpawn ==
  /\ gen.kind = "surface" /\ gen.pc = "spawn"
  /\ \E c \in SurfaceCells :
       LET empty == gen.area.solids[idxOf(gen.area.size, c[1], c[2])] = 0
           on == goesOn(gen.tries + 1, spawnTries, ~empty)
       IN gen' = [gen EXCEPT !.spawn = IF empty THEN c ELSE @,
                             !.tries = IF on THEN @ + 1 ELSE 0,
                             !.pc = IF on THEN "spawn" ELSE "done"]
  /\ genFrame

\* World: this.gridW = this.gridH (96); the loop counts of generate: blocks
\* (22), the steps of the random walk (900), the tries of _placePocketDoors
\* (2400) and the doors it is asked for (6 + difficulty), doorCount
\* (18 + difficulty * 6), the tries of _randomEmptyCellFarFromSpawn (400)
gridW == 28
blocks == 1
walkSteps == 2
anchorTries == 2
anchorCount == 1
doorCount == 1
emptyCellTries == 2

\* constructor({ scene, assets, rngSeed = 1337 })
rngSeed == 1337

\* this.seed = rngSeed >>> 0, kept as two halves of 16 bits
seedOf(n) == [hi |-> n \div 65536, lo |-> n % 65536]

\* (this.seed * 1664525 + 1013904223) >>> 0, where 1664525 is
\* 25 * 65536 + 26125 and 1013904223 is 15470 * 65536 + 62303
lcg(s) ==
  LET t0 == s.lo * 26125 + 62303
  IN [lo |-> t0 % 65536,
      hi |-> (s.hi * 26125 + s.lo * 25 + 15470 + t0 \div 65536) % 65536]

\* _r(): the World after the draw; the value drawn is w.seed / 4294967296
_r(w) == [w EXCEPT !.seed = lcg(@)]

\* the value just drawn is below pct / 100
below(w, pct) == 100 * w.seed.hi + (100 * w.seed.lo) \div 65536 < pct * 65536

\* Math.floor(the value just drawn * n), the index _pick takes
picked(w, n) == (w.seed.hi * n + (w.seed.lo * n) \div 65536) \div 65536

\* setWall(cx, cz, v) on every cell of a set
setWalls(w, cells, v) ==
  at(w, LAMBDA u : at(cells, LAMBDA cs :
    [u EXCEPT !.grid = [id \in DOMAIN u.grid |->
       IF <<id % u.gridW, id \div u.gridW>> \in cs THEN (IF v THEN 1 ELSE 0)
       ELSE u.grid[id]]]))

\* if (this._r() < pct / 100) this.setWall(cx, cz, 0)
clearIf(w, cx, cz, pct) ==
  at(_r(w), LAMBDA w1 : IF below(w1, pct) THEN setWall(w1, cx, cz, FALSE) ELSE w1)

\* _countWallsAround(cx, cz)
countWallsAround(w, cx, cz) ==
  Cardinality({ d \in ((-1)..1) \X ((-1)..1) :
                  d # <<0, 0>> /\ isWallCell(w, cx + d[1], cz + d[2]) })

\* new World(...) and generate() up to _carveCourtyard: clear()
worldStart ==
  [kind |-> "world", pc |-> "border",
   w |-> [gridW |-> gridW, gridH |-> gridW,
          grid |-> [id \in 0..(gridW * gridW - 1) |-> 0],
          seed |-> seedOf(rngSeed), doors |-> <<>>, anchors |-> <<>>,
          interactables |-> <<>>, keys |-> <<>>],
   i |-> 0, tries |-> 0, at |-> <<4, 4>>, spawn |-> <<>>, first |-> <<>>]

\* _carveCourtyard: the border loop
CarveBorder ==
  /\ gen.kind = "world" /\ gen.pc = "border"
  /\ gen' = [gen EXCEPT
               !.w = setWalls(gen.w, { c \in (0..(gen.w.gridW - 1)) \X (0..(gen.w.gridH - 1)) :
                                         \/ c[1] < 2 \/ c[2] < 2
                                         \/ c[1] > gen.w.gridW - 3
                                         \/ c[2] > gen.w.gridH - 3 }, TRUE),
               !.pc = "blocks"]
  /\ genFrame

\* the cells of a block, dz outside and dx inside: if (this._r() < 0.06)
\* continue; this.setWall(x + dx, z + dz, 1)
carveBlock(w, b, k) ==
  loop(LAMBDA u, j :
         at(_r(u), LAMBDA w1 :
              IF below(w1, 6) THEN w1
              ELSE setWall(w1, b.x + (j % b.w), b.z + (j \div b.w), TRUE)),
       w, k, b.w * b.h)

\* the blocks drawn: w, h = irand(4, 14), x = irand(4, gridW - w - 5),
\* z = irand(4, gridH - h - 5)
BlockDraws ==
  { b \in { [w |-> 4, h |-> 4, x |-> 19, z |-> 19],
            [w |-> 14, h |-> 4, x |-> 5, z |-> 19],
            [w |-> 4, h |-> 4, x |-> 4, z |-> 4],
            [w |-> 4, h |-> 4, x |-> 18, z |-> 18] } :
      b.x \in 4..(gridW - b.w - 5) /\ b.z \in 4..(gridW - b.h - 5) }

\* _carveCourtyard: one iteration of the block loop; a block with
\* x < 18 && z < 18 is left out
CarveBlock ==
  /\ gen.kind = "world" /\ gen.pc = "blocks"
  /\ \E b \in BlockDraws :
       gen' = [gen EXCEPT
                 !.w = IF b.x < 18 /\ b.z < 18 THEN @ ELSE carveBlock(@, b, 0),
                 !.i = IF gen.i + 1 < blocks THEN @ + 1 ELSE 0,
                 !.pc = IF gen.i + 1 < blocks THEN "blocks" ELSE "walk"]
  /\ genFrame

\* _carveCourtyard: one step of the random walk from (4, 4); dir is irand(0, 3)
WalkStep ==
  /\ gen.kind = "world" /\ gen.pc = "walk"
  /\ \E dir \in 0..3 :
       LET cx == clamp(gen.at[1] + (IF dir = 0 THEN 1 ELSE IF dir = 1 THEN -1 ELSE 0),
                       3, gen.w.gridW - 4)
           cz == clamp(gen.at[2] + (IF dir = 2 THEN 1 ELSE IF dir = 3 THEN -1 ELSE 0),
                       3, gen.w.gridH - 4)
           on == gen.i + 1 < walkSteps
       IN gen' = [gen EXCEPT !.w = setWall(@, gen.at[1], gen.at[2], FALSE),
                             !.at = IF on THEN <<cx, cz>> ELSE <<4, 4>>,
                             !.i = IF on THEN @ + 1 ELSE 0,
                             !.pc = IF on THEN "walk" ELSE "widen"]
  /\ genFrame

\* the widening loop, the row cz2 from cx2 on: around a cell that is no wall
\* each of the four neighbours is cleared on a draw below 0.18
widenRow(w, cz, cx) ==
  at(w, LAMBDA u :
    loop(LAMBDA v, x :
           IF isWallCell(v, x, cz) THEN v
           ELSE clearIf(clearIf(clearIf(clearIf(v, x + 1, cz, 18),
                                        x - 1, cz, 18),
                                x, cz + 1, 18),
                        x, cz - 1, 18),
         u, cx, u.gridW - 2))

\* a widening loop that goes on to the row gridH - 2
widenPathsToTheEdge(w, cz) ==
  at(w, LAMBDA u : loop(LAMBDA v, z : widenRow(v, z, 2), u, cz, u.gridH - 1))

\* for (cz2 = 2; cz2 < gridH - 2; cz2++) for (cx2 = 2; cx2 < gridW - 2; cx2++)
widenPaths(w, cz) ==
  at(w, LAMBDA u : loop(LAMBDA v, z : widenRow(v, z, 2), u, cz, u.gridH - 2))

\* _carveCourtyard: the widening loop
WidenPaths ==
  /\ gen.kind = "world" /\ gen.pc = "widen"
  /\ gen' = [gen EXCEPT !.w = widenPaths(@, 2), !.pc = "anchors"]
  /\ genFrame

\* the directions of _placePocketDoors, in the order of dirs
doorDirs == << [dx |-> 1, dz |-> 0, dir |-> "E"], [dx |-> -1, dz |-> 0, dir |-> "W"],
               [dx |-> 0, dz |-> 1, dir |-> "S"], [dx |-> 0, dz |-> -1, dir |-> "N"] >>

\* the cells drawn by _placePocketDoors, cx, cz = irand(8, gridW - 9): cells
\* next to the blocks drawn, and a cell in the open
AnchorCells ==
  { c \in { <<18, 19>>, <<19, 18>>, <<18, 20>>, <<10, 18>>, <<10, 10>> } :
      c[1] \in 8..(gridW - 9) /\ c[2] \in 8..(gridW - 9) }

\* _placePocketDoors: one iteration of
\* for (t = 0; t < tries && anchors.length < count; t++)
PlaceAnchor ==
  /\ gen.kind = "world" /\ gen.pc = "anchors"
  /\ \E c \in AnchorCells :
       LET w1 == _r(gen.w)
           d == doorDirs[picked(w1, 4) + 1]
           wx == c[1] + d.dx
           wz == c[2] + d.dz
           w2 == IF isWallCell(gen.w, c[1], c[2]) THEN gen.w
                 ELSE IF ~isWallCell(w1, wx, wz) THEN w1
                 ELSE IF countWallsAround(w1, c[1], c[2]) > 6 THEN w1
                 ELSE [setWall(w1, wx, wz, FALSE) EXCEPT
                         !.anchors = Append(@, [cx |-> wx, cz |-> wz, dir |-> d.dir])]
           on == goesOn(gen.tries + 1, anchorTries, Len(w2.anchors) < anchorCount)
       IN gen' = [gen EXCEPT !.w = w2,
                             !.tries = IF on THEN @ + 1 ELSE 0,
                             !.pc = IF on THEN "anchors"
                                    ELSE IF Len(w2.anchors) > 0 THEN "corridors"
                                    ELSE "doors"]
  /\ genFrame

\* the moves of step(d) and of the branch
dxOf(d) == IF d = "E" THEN 1 ELSE IF d = "W" THEN -1 ELSE 0
dzOf(d) == IF d = "S" THEN 1 ELSE IF d = "N" THEN -1 ELSE 0

\* this._pick(["N","S","E","W"]) for the value just drawn
pickedDir(w) == << "N", "S", "E", "W" >>[picked(w, 4) + 1]

\* _carvePocketCorridor: one iteration of for (i = 0; i < length; i++) from
\* c = (w, cx, cz, dir, i); d holds the draws of irand: blen the steps of a
\* branch, rw and rh the sides of a room pocket, sx and sz the door spot
corridorStep(c, d) ==
  LET W == c.w.gridW
      H == c.w.gridH
      cx == clamp(c.cx + dxOf(c.dir), 3, W - 4)
      cz == clamp(c.cz + dzOf(c.dir), 3, H - 4)
      rx == clamp(cx - d.rw \div 2, 3, W - d.rw - 3)
      rz == clamp(cz - d.rh \div 2, 3, H - d.rh - 3)
      \* if (this._r() < 0.22) dir = this._pick(["N","S","E","W"])
      turned(w5) ==
        at(_r(w5), LAMBDA w6 :
          IF below(w6, 22)
          THEN at(_r(w6), LAMBDA w7 :
                 [w |-> w7, cx |-> cx, cz |-> cz, dir |-> pickedDir(w7), i |-> c.i + 1])
          ELSE [w |-> w6, cx |-> cx, cz |-> cz, dir |-> c.dir, i |-> c.i + 1])
      \* if (this._r() < 0.18) a room pocket, and in it on a draw below 0.35
      \* a door, locked on a draw below 0.6
      pocketed(w3) ==
        at(_r(w3), LAMBDA w4 :
          IF ~below(w4, 18) THEN turned(w4)
          ELSE at(_r(setWalls(w4, (rx..(rx + d.rw - 1)) \X (rz..(rz + d.rh - 1)), FALSE)),
                  LAMBDA w4c :
                    IF ~below(w4c, 35) THEN turned(w4c)
                    ELSE at(_r(w4c), LAMBDA w4l :
                           turned([w4l EXCEPT !.doors =
                                     Append(@, queueDoorAtCell(rx + d.sx, rz + d.sz,
                                                               below(w4l, 60)))]))))
      \* if (this._r() < 0.12) a branch of blen steps along a direction picked
      branched(w1) ==
        at(_r(w1), LAMBDA w2 :
          IF ~below(w2, 12) THEN pocketed(w2)
          ELSE at(_r(w2), LAMBDA w2p :
                 pocketed(setWalls(w2p,
                   { <<clamp(cx + j * dxOf(pickedDir(w2p)), 3, W - 4),
                       clamp(cz + j * dzOf(pickedDir(w2p)), 3, H - 4)>> :
                       j \in 1..d.blen }, FALSE))))
  IN branched(clearIf(clearIf(clearIf(clearIf(setWall(c.w, cx, cz, FALSE),
                                              cx + 1, cz, 50),
                                      cx - 1, cz, 50),
                              cx, cz + 1, 50),
                      cx, cz - 1, 50))

corridorFrom(c, d) ==
  loop(LAMBDA v, i : at(v, LAMBDA u : corridorStep(u, d)), c, 0, d.len).w

\* _carvePocketCorridor(startCx, startCz, dir, length)
carvePocketCorridor(w, startCx, startCz, dir, d) ==
  corridorFrom([w |-> setWall(w, startCx, startCz, FALSE),
                cx |-> startCx, cz |-> startCz, dir |-> dir, i |-> 0], d)

\* the draws of irand of a corridor: its length irand(9, 18) + difficulty * 2,
\* the steps of a branch irand(4, 10), the sides of a room pocket irand(4, 9),
\* the door spot irand(1, rw - 2), irand(1, rh - 2)
CorridorDraws ==
  { [len |-> 9, blen |-> 4, rw |-> 4, rh |-> 4, sx |-> 1, sz |-> 2],
    [len |-> 18, blen |-> 10, rw |-> 9, rh |-> 9, sx |-> 7, sz |-> 1] }

\* generate: one iteration of for (const a of corridorAnchors)
CarveCorridor ==
  /\ gen.kind = "world" /\ gen.pc = "corridors"
  /\ \E d \in CorridorDraws :
       LET a == gen.w.anchors[gen.i + 1]
           on == gen.i + 1 < Len(gen.w.anchors)
       IN gen' = [gen EXCEPT !.w = carvePocketCorridor(@, a.cx, a.cz, a.dir, d),
                             !.i = IF on THEN @ + 1 ELSE 0,
                             !.pc = IF on THEN "corridors" ELSE "doors"]
  /\ genFrame

\* the cells drawn by _randomEmptyCellFarFromSpawn, irand(3, gridW - 4): near
\* the spawn, in the open, in the block and in the corner away from the spawn
EmptyCellDraws ==
  { c \in { <<5, 5>>, <<20, 10>>, <<20, 20>>, <<gridW - 4, gridW - 4>> } :
      c[1] \in 3..(gridW - 4) /\ c[2] \in 3..(gridW - 4) }

\* _scatterProps: the door loop for (i = 0; i < doorCount; i++), one
\* iteration of for (t = 0; t < 400; t++) of _randomEmptyCellFarFromSpawn at
\* a time: a cell found is returned and a door queued there with
\* locked = this._r() < 0.35 + difficulty * 0.12; with no cell found after
\* the last try null is returned and the door left out (if (!spot) continue)
TryEmptyCell ==
  /\ gen.kind = "world" /\ gen.pc = "doors"
  /\ \E c \in EmptyCellDraws :
       LET found == /\ ~isWallCell(gen.w, c[1], c[2])
                    /\ ~(c[1] < 14 /\ c[2] < 14)
                    /\ ~(countWallsAround(gen.w, c[1], c[2]) > 6)
           w1 == _r(gen.w)
           on == goesOn(gen.tries + 1, emptyCellTries, ~found)
           last == ~on /\ ~(gen.i + 1 < doorCount)
       IN gen' = [gen EXCEPT
                    !.w = IF found
                          THEN [w1 EXCEPT !.doors =
                                  Append(@, queueDoorAtCell(c[1], c[2], below(w1, 35)))]
                          ELSE @,
                    !.tries = IF on THEN @ + 1 ELSE 0,
                    !.i = IF on THEN @ ELSE IF last THEN 0 ELSE @ + 1,
                    !.pc = IF last THEN "spawn" ELSE "doors"]
  /\ genFrame

\* a cell _randomEmptyCellFarFromSpawn returns
emptyFarFromSpawn(w, c) ==
  /\ ~isWallCell(w, c[1], c[2])
  /\ ~(c[1] < 14 /\ c[2] < 14)
  /\ ~(countWallsAround(w, c[1], c[2]) > 6)

\* _spawnDoors, the loop for (const d of this.doors): an interactable of
\* kind "door" whose action holds d, and if (d.keyId) a key record
spawnDoors(w) ==
  LET n == Len(w.doors)
      locked == SelectSeq([i \in 1..n |-> i], LAMBDA i : w.doors[i].keyId # <<"null">>)
  IN [w EXCEPT
        !.interactables = @ \o [i \in 1..n |-> [kind |-> "door", of |-> i]],
        !.keys = @ \o [j \in 1..Len(locked) |->
                         [keyId |-> w.doors[locked[j]].keyId, placed |-> FALSE]]]

\* _placeKeys: for (const k of this.keys): if (k.placed) continue; if (!c)
\* continue; an interactable of kind "key", k.placed = true.  cs[j] is the
\* cell the tries of _randomEmptyCellFarFromSpawn draw for the j-th key
placeKeys(w, cs) ==
  loop(LAMBDA u, j :
         IF u.keys[j].placed \/ ~emptyFarFromSpawn(u, cs[j]) THEN u
         ELSE [u EXCEPT !.interactables = Append(@, [kind |-> "key", of |-> j]),
                        !.keys[j].placed = TRUE],
       w, 1, Len(w.keys) + 1)

\* _scatterProps after the door loop: this._spawnDoors(), which ends with
\* this._placeKeys()
SpawnDoors ==
  /\ gen.kind = "world" /\ gen.pc = "spawn"
  /\ LET w1 == spawnDoors(gen.w) IN
     \E cs \in [1..Len(w1.keys) -> EmptyCellDraws] :
       gen' = [gen EXCEPT !.w = placeKeys(w1, cs), !.pc = "server"]
  /\ genFrame

\* _placeKeyAndServerDoor: the space carved around (gridW - 10, gridH - 10),
\* the server door queued and its key record pushed; then
\* this.playerSpawn.set(6, 1.7, 6)
PlaceServerDoor ==
  /\ gen.kind = "world" /\ gen.pc = "server"
  /\ LET cx == gen.w.gridW - 10
         cz == gen.w.gridH - 10
         w1 == setWalls(gen.w, ((cx - 2)..(cx + 2)) \X ((cz - 2)..(cz + 2)), FALSE)
         sp == worldToCell(gen.w, 600, 600)
     IN gen' = [gen EXCEPT
                  !.w = [w1 EXCEPT
                           !.doors =
                             Append(@, [cx |-> cx, cz |-> cz, locked |-> TRUE,
                                        opened |-> FALSE, keyId |-> <<"SERVER_KEY">>]),
                           !.keys =
                             Append(@, [keyId |-> <<"SERVER_KEY">>, placed |-> FALSE])],
                  !.spawn = <<sp.cx, sp.cz>>,
                  !.pc = "done"]
  /\ genFrame

\* the action of a door of the generated world with its key held:
\* d.locked = false, d.opened = true; the grid is not written
OpenWorldDoor ==
  /\ gen.kind = "world" /\ gen.pc = "done"
  /\ \E i \in 1..Len(gen.w.doors) :
       /\ ~gen.w.doors[i].opened
       /\ gen' = [gen EXCEPT !.w.doors[i].opened = TRUE, !.w.doors[i].locked = FALSE]
  /\ genFrame

\* what a run of generate placed: the grid, and the cell and key of each door
placements(w) ==
  [grid |-> w.grid,
   doors |-> [i \in 1..Len(w.doors) |-> <<w.doors[i].cx, w.doors[i].cz, w.doors[i].keyId>>]]

\* a second run on the same inputs: new World(...) with the same rngSeed and
\* generate(...) with the same parameters; what the first run placed is kept
\* in gen.first
GenerateAgain ==
  /\ gen.kind = "world" /\ gen.pc = "done"
  /\ gen.first = <<>>
  /\ gen' = [worldStart EXCEPT !.first = << placements(gen.w) >>]
  /\ genFrame

InitGen ==
  /\ \/ build = "single" /\ gen \in {pocketStart, surfaceStart}
     \/ build = "modular" /\ gen = worldStart
  /\ state = "unused" /\ api = "unused" /\ ai = "unused" /\ world = "unused"
  /\ current = "unused" /\ acc = "unused" /\ player = "unused"
  /\ STATE_ = "unused" /\ INPUT = "unused" /\ area = "unused" /\ timers = "unused"
  /\ ui = "unused" /\ hist = "unused" /\ ev = "unused" /\ probe = "unused"

NextGen ==
  \/ PlaceRoom \/ ConnectRooms \/ PlaceKey \/ PlacePocketDoor \/ PlaceExit
  \/ FindPocketSpawn \/ OpenPocketDoor
  \/ BuildSurface \/ PlaceSurfaceKey \/ PlaceGate \/ FindSurfaceSpawn
  \/ CarveBorder \/ CarveBlock \/ WalkStep \/ WidenPaths
  \/ PlaceAnchor \/ CarveCorridor \/ TryEmptyCell \/ SpawnDoors \/ PlaceServerDoor
  \/ OpenWorldDoor
  \/ GenerateAgain

GenSpec == InitGen /\ [][NextGen]_vars

\* the generators are synchronous code: a loop that can take a step takes it
FairGenSpec == GenSpec /\ WF_vars(NextGen)

\* the rooms a and b are at least two cells apart along one of the axes
twoApart(a, b) ==
  \/ a.x + a.w + 2 <= b.x \/ b.x + b.w + 2 <= a.x
  \/ a.z + a.h + 2 <= b.z \/ b.z + b.h + 2 <= a.z

\* C15: the pocket generator holds at most roomCount rooms, and no accepted
\* room intersects another accepted room expanded by two cells on every side
C15_RoomsWithinCountAndApart ==
  gen.kind = "pocket" =>
    /\ Len(gen.rooms) <= roomCount
    /\ \A i \in 1..Len(gen.rooms), j \in 1..Len(gen.rooms) :
         i # j => twoApart(gen.rooms[i], gen.rooms[j])

\* the room loop ended with roomCount rooms after a candidate was turned
\* down, two of the rooms exactly two cells apart
C15_RoomCountReachedAtTheMargin ==
  /\ gen.kind = "pocket" /\ gen.pc # "rooms"
  /\ Len(gen.rooms) = roomCount /\ gen.attempts > roomCount
  /\ \E i \in 1..Len(gen.rooms), j \in 1..Len(gen.rooms) :
       gen.rooms[i].x + gen.rooms[i].w + 2 = gen.rooms[j].x

\* the grid of the generator followed: its side, and its cells (1 is Solid)
genSize == IF gen.kind = "world" THEN gen.w.gridW ELSE gen.area.size
genGrid == IF gen.kind = "world" THEN gen.w.grid ELSE gen.area.solids
solidAt(x, z) == genGrid[x + z * genSize] = 1

\* C11: once an area is generated, and after the doors of it that were
\* opened, every cell of the outer row and column of its grid is Solid
C11_BorderStaysSolid ==
  gen.pc = "done" =>
    \A k \in 0..(genSize - 1) :
      /\ solidAt(k, 0) /\ solidAt(k, genSize - 1)
      /\ solidAt(0, k) /\ solidAt(genSize - 1, k)

\* a generated world whose widening loop cleared a cell of the ring next to
\* the outer one, a corridor carved and a door opened
C11_ErodedToTheLastRingAndOpened ==
  /\ gen.kind = "world" /\ gen.pc = "done"
  /\ Len(gen.w.anchors) > 0
  /\ \E k \in 2..(genSize - 3) : ~solidAt(1, k) \/ ~solidAt(k, genSize - 2)
  /\ \E i \in 1..Len(gen.w.doors) : gen.w.doors[i].opened

\* the passable cells joined to the cells of S by steps to a 4-neighbour
RECURSIVE flood(_, _)
flood(open, S) ==
  LET S2 == S \cup { c \in open : \/ <<c[1] + 1, c[2]>> \in S \/ <<c[1] - 1, c[2]>> \in S
                                  \/ <<c[1], c[2] + 1>> \in S \/ <<c[1], c[2] - 1>> \in S }
  IN IF S2 = S THEN S ELSE flood(open, S2)

passable == { c \in (0..(genSize - 1)) \X (0..(genSize - 1)) : ~solidAt(c[1], c[2]) }

\* C12 as stated: every passable cell of a generated area is reachable from
\* the spawn cell by steps to a 4-neighbour through passable cells
C12_AllPassableReachable ==
  gen.pc = "done" /\ gen.spawn # <<>> =>
    passable \subseteq flood(passable, {gen.spawn} \cap passable)

\* C13 as stated: a second run of generate on the same seed and parameters
\* places what the first run placed: the same grid, the same doors and keys
C13_SecondRunPlacesTheSame ==
  gen.kind = "world" /\ gen.pc = "done" /\ gen.first # <<>> =>
    placements(gen.w) = gen.first[1]

\* the attempt budget of the loop the generator is in
budgetOf(kind, pc) ==
  CASE kind = "pocket" /\ pc = "rooms" -> roomAttempts
    [] kind = "pocket" /\ pc = "keys" -> keyTries
    [] kind = "pocket" /\ pc = "doors" -> pocketDoorRolls
    [] kind = "pocket" /\ pc = "exit" -> exitTries
    [] kind = "surface" /\ pc \in {"key", "gate"} -> surfaceTries
    [] kind \in {"pocket", "surface"} /\ pc = "spawn" -> spawnTries
    [] kind = "world" /\ pc = "anchors" -> anchorTries
    [] kind = "world" /\ pc = "doors" -> emptyCellTries
    [] OTHER -> 1

\* the iterations the loop the generator is in has run
triesOf == IF gen.kind = "pocket" /\ gen.pc = "rooms" THEN gen.attempts ELSE gen.tries

\* C14: a placement loop is about to run an iteration only within its
\* budget (rooms, keys, exit, random empty cell, spawn cell), and every
\* generation gets to its end, with whatever it placed
C14_LoopsEndWithinBudget ==
  /\ [](triesOf < budgetOf(gen.kind, gen.pc))
  /\ <>(gen.pc = "done")

\* a pocket generated with every budget it could exhaust exhausted: fewer
\* rooms and fewer keys than asked for, and no spawn cell found
C14_BudgetsExhausted ==
  /\ gen.kind = "pocket" /\ gen.pc = "done"
  /\ gen.attempts = roomAttempts /\ Len(gen.rooms) < roomCount
  /\ gen.placedKeys < keyCount
  /\ gen.spawn = <<>>

----------------------------------------------------------------------------
(* Properties of the sessions: the teleport, the glitch, the cooldowns *)

\* C21 as stated: a teleport of an enemy can be drawn at every fear above 0
\* and at no fear of 0, and every teleport that happened happened at a fear
\* above 0
C21_TeleportPossibleIffFearPositive ==
  Modular /\ Len(ai) > 0 =>
    /\ (teleDests(api.fear, player) # {0}) <=> (api.fear > 0)
    /\ \A k \in 1..Len(Updates) : Updates[k].tele => Updates[k].fear > 0

\* post.glitchPass.uniforms.glitch.value = clamp(fear*1.2, 0, 1), in 1/10000
glitchUniform(fear) == clamp((fear * 12) \div 10, 0, 10000)

\* the glitch shown: STATE.glitch, or the glitch uniform of the modular build
glitchOf(b, S, a) == IF b = "single" THEN S.glitch ELSE glitchUniform(a.fear)

\* the handler that ends in the next state was a tick (or a frame) in which
\* no discrete event happened: no enemy hit, no stare at a poster or a wall
\* image, no action of an interactable
quietTick ==
  /\ ev'.op \in {"tick", "frame"}
  /\ ev'.invoked = <<>>
  /\ "affect" \notin { ev'.order[k] : k \in 1..Len(ev'.order) }
  /\ \A k \in 1..Len(ev'.ai) : ~ev'.ai[k].hit

\* C22 as stated: over a tick with no discrete event the glitch does not
\* increase
C22_GlitchNeverRisesOnAQuietTick ==
  [][quietTick => glitchOf(build, STATE_', api') <= glitchOf(build, STATE_, api)]_vars

\* the doors of the generated world that were queued locked
lockedDoors == { i \in 1..Len(gen.w.doors) : gen.w.doors[i].keyId # <<"null">> }

\* C23 as stated: no two locked doors of a generated world share a keyId
C23_LockedDoorsHaveFreshKeyIds ==
  gen.kind = "world" =>
    \A i \in lockedDoors, j \in lockedDoors :
      i # j => gen.w.doors[i].keyId # gen.w.doors[j].keyId
\* C24 as stated: on every tick each enemy's cooldown has come down by dt
\* (to where the model stops following it), whether the enemy chases or not:
\* the single-file build counts attackCD down from its value before the tick,
\* the modular build counts hitCooldown down from its value or from the reset
C24_CooldownFallsOnEveryTick ==
  [][/\ (build = "single" /\ ev'.op = "tick") =>
          \A k \in 1..Len(ev'.ai) :
            \E dt \in {2, dtMax} :
              ev'.ai[k].cd = Max(area.enemies[ev'.ai[k].enemy].attackCD - dt,
                                 0 - MaxOverdue * dtMax)
     /\ (build = "modular" /\ ev'.op = "frame") =>
          \A k \in 1..Len(ev'.ai) :
            ev'.ai[k].after = coolDown(IF ev'.ai[k].hit THEN hitCooldownReset
                                       ELSE ev'.ai[k].cd, step)]_vars

----------------------------------------------------------------------------
(* Properties of the collision queries: the degenerate case *)

\* the cells collideSphere looks at from the position asked about
neighbours ==
  LET c == worldToCell(probe.world, probe.pos.x, probe.pos.z)
  IN { <<c.cx + d[1], c.cz + d[2]>> : d \in { around[k] : k \in 1..Len(around) } }
       \cap ((0..(probe.world.gridW - 1)) \X (0..(probe.world.gridH - 1)))

\* the walls among them whose box holds the position (distance 0), and the
\* walls among them that are nearer than the radius without holding it
holding ==
  { n \in neighbours : /\ isWallCell(probe.world, n[1], n[2])
                       /\ boxDist2(probe.pos, n[1], n[2]) = 0 }
pressing ==
  { n \in neighbours : /\ isWallCell(probe.world, n[1], n[2])
                       /\ boxDist2(probe.pos, n[1], n[2]) > 0
                       /\ boxDist2(probe.pos, n[1], n[2]) < probe.radius * probe.radius }

\* C25 as stated: when the position lies in the box of a wall (distance 0),
\* collideSphere leaves the position where it is
C25_InsideAWallStaysWhereItIs ==
  build = "modular" /\ holding # {} =>
    \A k \in 1..Len(probe.out) : probe.out[k] = probe.pos

\* C25: a wall whose box holds the position pushes nothing and nothing is
\* divided by zero: the step of collideSphere for that wall leaves the
\* position as it is, every push that is made divides by a distance above
\* zero, and with no other wall pressing the whole call leaves the position
C25_WallHoldingThePositionPushesNothing ==
  build = "modular" /\ Len(probe.out) >= 1 =>
    /\ \A n \in holding :
         pushOut(probe.world, probe.pos, n[1], n[2], probe.radius) = probe.pos
    /\ \A n \in pressing : sqrt(boxDist2(probe.pos, n[1], n[2])) > 0
    /\ (holding # {} /\ pressing = {}) => probe.out[1] = probe.pos

\* collideSphere was called on the centre of a corner cell of the border
C25_ResolvedInsideTheBorder ==
  /\ build = "modular"
  /\ probe.pos = [x |-> 100, z |-> 100]
  /\ holding = { <<0, 0>> } /\ pressing = {}
  /\ Len(probe.out) = 2
  /\ probe.out[1] = probe.pos

----------------------------------------------------------------------------
(* Properties of the generated world: doors and keys after generate() *)

\* C26 as stated: once generate() has returned, every door record has an
\* interactable whose action opens it, the server door too, and every key
\* record, SERVER_KEY too, has been placed
C26_EveryDoorOpenableEveryKeyPlaced ==
  gen.kind = "world" /\ gen.pc = "done" =>
    /\ \A i \in 1..Len(gen.w.doors) :
         \E j \in 1..Len(gen.w.interactables) :
           gen.w.interactables[j] = [kind |-> "door", of |-> i]
    /\ \A k \in 1..Len(gen.w.keys) : gen.w.keys[k].placed

----------------------------------------------------------------------------
(* Properties of the sessions: the stopped game, the pocket, the drain *)

\* the game is stopped: not playing, or paused (Escape, a note open, death)
stopped ==
  IF build = "single" THEN ~STATE_.playing \/ STATE_.paused ELSE ~state.playing

\* C27 as stated: while the game is stopped no operation changes health or
\* sanity, the callbacks of setTimeout that fire meanwhile included
C27_NoHealthOrSanityChangeWhileStopped ==
  [][stopped =>
       IF build = "single"
       THEN STATE_'.hp = STATE_.hp /\ STATE_'.sanity = STATE_.sanity
       ELSE state'.hp = state.hp /\ state'.sanity = state.sanity]_vars

C28_SpawnFoundIsFree ==
  gen.kind \in {"pocket", "surface"} /\ gen.spawn # <<>> =>
    ~collidesAt(gen.area, gen.spawn)

\* C29 as stated: in a pocket, after every tick the exit door is unlocked
\* exactly when at least keyCount keys are held; the session ends with the
\* escape only with that many keys held, and the keys held never go negative
C29_ExitUnlockedIffKeysHeld ==
  build = "single" /\ STATE_.inPocket =>
    /\ ev.op = "tick" =>
         \A k \in 1..Len(area.doors) :
           area.doors[k].kind = "exitDoor" =>
             (~area.doors[k].locked <=> STATE_.keys >= keyCount)
    /\ ui.deathReason = "YOU ESCAPED (...FOR NOW)" => STATE_.keys >= keyCount
    /\ STATE_.keys >= 0

----------------------------------------------------------------------------
(* Sessions left alone: no key is pressed, nothing is targeted, nothing is  *)
(* looked at; the frames keep coming for as long as the game is playing.    *)

\* sanity, in hundredths, from which a session is followed to its end
DrainedFrom == 40

\* the sessions followed to their end
leftAlone ==
  IF build = "modular" THEN state.sanity <= DrainedFrom
  ELSE STATE_.sanity <= DrainedFrom

InitDrain == Init /\ leftAlone

\* frame(): the fixed steps of updateOne with nothing under the crosshair
\* and no wall image stared at
QuietFrame ==
  /\ build = "modular"
  /\ state.playing
  /\ \E dt \in 1..dtCap :
       LET n == (acc + dt) \div step
           quiet(m) == { in \in stepInputs(m) : in.target = 0 /\ ~in.stare }
       IN
       /\ acc' = (acc + dt) % step
       /\ \E in1 \in IF n >= 1 THEN quiet(Now) ELSE {0} :
            \E m1 \in { IF n >= 1 THEN updateOne(Now, step, in1) ELSE Now } :
              \E in2 \in IF n >= 2 THEN quiet(m1) ELSE {0} :
                \E m2 \in { IF n >= 2 THEN updateOne(m1, step, in2) ELSE m1 } :
                  Commit(m2, "frame")
  /\ UNCHANGED <<gen, probe, build, STATE_, INPUT, area, timers>>

\* tick(): with no latch set, nothing looked at and no shot fired
QuietTick ==
  /\ build = "single"
  /\ STATE_.playing /\ ~STATE_.paused
  /\ \E in \in { i \in tickInputs(Now1) :
                   i.target = NoInteract /\ ~i.look /\ i.shot = 0 } :
       \E M \in { tickBody(Now1, in) } : Commit1(M, "tick", 1)

NextDrain == QuietFrame \/ QuietTick

\* requestAnimationFrame calls frame and tick again for as long as the page
\* is open
DrainSpec == InitDrain /\ [][NextDrain]_vars /\ WF_vars(NextDrain)

sanityOf(b, s, S) == IF b = "single" THEN S.sanity ELSE s.sanity

\* the session has ended with a reason reported
terminal ==
  /\ ui.deathReason # ""
  /\ IF build = "single" THEN ~STATE_.playing ELSE ~state.playing

====
